---- MODULE Spec2Model ----
(***************************************************************************)
(* Model of the Nearby Places app: the location store (zustand), the       *)
(* location service, the places API client and the screen handlers that    *)
(* drive them.  Asynchronous handlers are tasks; a step of the model is    *)
(* the code that runs between two awaits of one task.                      *)
(***************************************************************************)
EXTENDS Integers, Sequences, FiniteSets, Bags, TLC

\* ------------------------------------------------------------------ bounds
\* Number of concurrently running handlers (async flows) of the screen.
MaxTasks == 2
\* How many of SUPPORTED_PLACE_TYPES the model iterates over.
NumPlaceTypes == 2
\* How many handlers the user starts (button presses) in one run.
MaxPresses == 4
\* How many of them in a run of the whole screen, where every control is
\* offered.
MaxScreenPresses == 3

\* ------------------------------------------------------- program constants
\* Coordinates are degrees scaled by 10^4 (37.7749 -> 377749).
DEFAULT_LATITUDE == 377749
DEFAULT_LONGITUDE == -1224194
\* verifyLocationConsistency tolerance 0.001 degrees, in the same scale.
CONSISTENCY_TOLERANCE == 10

DEFAULT_LOCATION == [latitude |-> DEFAULT_LATITUDE, longitude |-> DEFAULT_LONGITUDE]

\* Positions the device can report: one within the consistency tolerance of
\* the default location without being equal to it, one far from it.
GpsLocations ==
  { [latitude |-> DEFAULT_LATITUDE + 5, longitude |-> DEFAULT_LONGITUDE],
    [latitude |-> 407128, longitude |-> -740060] }

ALL_PLACE_TYPES ==
  << "restaurant", "cafe", "gas_station", "bank", "pharmacy", "lodging", "park",
     "gym", "hospital", "shopping_mall", "store", "bar", "school", "police",
     "post_office", "library", "museum", "movie_theater", "amusement_park",
     "aquarium", "zoo", "stadium", "airport", "train_station", "bus_station",
     "subway_station" >>

SUPPORTED_PLACE_TYPES == SubSeq(ALL_PLACE_TYPES, 1, NumPlaceTypes)

PlaceTypeSet == { SUPPORTED_PLACE_TYPES[i] : i \in 1..NumPlaceTypes }

DEFAULT_TYPE == "restaurant"
DEFAULT_RADIUS == 5000

\* ------------------------------------------------------------ option type
\* A nullable value is the empty set (null) or a singleton.
Null == {}
Some(x) == {x}
The(s) == CHOOSE x \in s : TRUE

Abs(n) == IF n < 0 THEN -n ELSE n

\* --------------------------------------------------------- places (server)
\* What the server holds for a category: records of NearbyPlacesResponse.places
\* (distance in km).
ServerCatalog(type) ==
  CASE type = "restaurant" ->
         << [id |-> "r1", type |-> "restaurant", distance |-> 4],
            [id |-> "r2", type |-> "restaurant", distance |-> 1] >>
    [] type = "cafe" ->
         << [id |-> "c1", type |-> "cafe", distance |-> 3],
            [id |-> "r2", type |-> "cafe", distance |-> 1] >>
    [] OTHER -> << [id |-> type, type |-> type, distance |-> 4] >>

\* The bodies a 2xx answer to /api/places/nearby can carry for a category.
ServerResponses(type) == { <<>>, ServerCatalog(type) }

\* A mapping that leaves the distance in km.
MapPlaceKeepingKm(p) == [id |-> p.id, types |-> << p.type >>, distance |-> p.distance]

\* nearbyPlacesApiService.getNearbyPlaces: the response mapping.
MapPlace(p) == [id |-> p.id, types |-> << p.type >>, distance |-> p.distance * 1000]

TransformPlaces(places) == [i \in 1..Len(places) |-> MapPlace(places[i])]

\* A sort that leaves the list in the order it was built.
SortByDistanceKeepingOrder(s) == s

\* Array.prototype.sort with (a.distance || 0) - (b.distance || 0): stable.
RECURSIVE InsertByDistance(_, _)
InsertByDistance(p, s) ==
  IF s = <<>> THEN << p >>
  ELSE IF p.distance < Head(s).distance THEN << p >> \o s
  ELSE << Head(s) >> \o InsertByDistance(p, Tail(s))

RECURSIVE SortByDistance(_)
SortByDistance(s) ==
  IF s = <<>> THEN <<>>
  ELSE InsertByDistance(s[Len(s)], SortByDistance(SubSeq(s, 1, Len(s) - 1)))

\* locationService.getNearbyPlaces: the API result sorted by distance.
ServiceGetNearbyPlaces(serverPlaces) == SortByDistance(TransformPlaces(serverPlaces))

\* A merge that keeps only the places no other category returned.
UniquePlacesDroppingShared(s) ==
  LET keep == { i \in 1..Len(s) : \A j \in 1..Len(s) : j # i => s[j].id # s[i].id }
      RECURSIVE Pick(_)
      Pick(i) == IF i > Len(s) THEN <<>>
                 ELSE (IF i \in keep THEN << s[i] >> ELSE <<>>) \o Pick(i + 1)
  IN Pick(1)

\* filter((place, index, self) => index === self.findIndex(p => p.id === place.id))
UniquePlaces(s) ==
  LET keep == { i \in 1..Len(s) : \A j \in 1..(i - 1) : s[j].id # s[i].id }
      RECURSIVE Pick(_)
      Pick(i) == IF i > Len(s) THEN <<>>
                 ELSE (IF i \in keep THEN << s[i] >> ELSE <<>>) \o Pick(i + 1)
  IN Pick(1)


\* ------------------------------------------------------------------ state
VARIABLES
  store,      \* LocationState of useLocationStore
  service,    \* LocationService: locationWatcherId; os is Platform.OS
  watches,    \* Geolocation: ids returned by watchPosition and not yet cleared
  nextWatchId,\* Geolocation: the id the next watchPosition returns
  api,        \* one call of NearbyPlacesApiService.makeRequest
  xf,         \* one call of nearbyPlacesApiService.getNearbyPlaces: body and result
  ui,         \* component state of NearbyPlacesScreen / LocationPermission
  tasks,      \* the running async handlers (a bag), each parked at an await
  presses,    \* number of handlers the user has started
  ev          \* what the last step did (observation only, never read by the code)

vars == << store, service, watches, nextWatchId, ui, tasks, presses, ev, api, xf >>

\* The variables of the screen, the store and the location service.
appVars == << store, service, watches, nextWatchId, ui, tasks, presses, ev >>

initialState ==
  [ currentLocation |-> Null,
    nearbyPlaces |-> <<>>,
    allPlaces |-> <<>>,
    permissionStatus |-> Null,
    isLoading |-> FALSE,
    error |-> Null,
    isLocationWatching |-> FALSE,
    selectedPlaceType |-> DEFAULT_TYPE,
    searchRadius |-> DEFAULT_RADIUS,
    useDefaultLocation |-> FALSE ]

LiveChoice(phase, got) == [phase |-> phase, got |-> got]

NoEvent ==
  [ failedFetch |-> Null, \* a fetchNearbyPlaces that failed in this step
    toggle |-> Null,      \* a toggleUseDefaultLocation that completed in this step
    replacedWatch |-> Null, \* the watch a startLocationWatching cleared in this step
    permissionRequest |-> Null, \* a requestLocationPermission that ended in this
                                \* step: whether the platform call threw
    locationFailed |-> Null, \* a getCurrentLocation of the store whose position
                             \* fetch failed in this step: the error's code
    mountCheck |-> Null,  \* the mount effect passed its second check in this step:
                          \* what the check reported, whether it goes on to request
    positionUpdate |-> Null, \* the position the watch delivered in this step
    liveChoice |-> Null,  \* handleUseLiveLocation in this step: "called", or how
                          \* it ended ("failed", or "done" with the position
                          \* it obtained)
    fetchAll |-> Null,    \* a fetchAllNearbyPlaces that completed in this step:
                          \* the results of its categories, concatenated
    fetched |-> Null,     \* a fetchNearbyPlaces that succeeded in this step:
                          \* the location it had asked for
    categoryFailed |-> Null, \* the category whose request of a
                             \* fetchAllNearbyPlaces rejected in this step
    launchGranted |-> FALSE, \* the mount effect ended in this step, and its
                             \* first check had reported granted
    liveFetch |-> Null,   \* a switch to live issued its places request in this
                          \* step: the category requested, the tab selected
    selectedCategory |-> "all", \* the category tab last selected, where a
                                \* specification follows it (kept across steps)
    sinceReset |-> FALSE,    \* reset was called and no store action has been
                             \* invoked since (kept across steps)
    lastToggle |-> "none" ]  \* how the last completed toggle ended (kept across steps)

\* The state the handlers read and write, as one value w, so that the code
\* between two awaits composes as functions w -> w.
World == [ store |-> store, service |-> service, watches |-> watches,
           nextWatchId |-> nextWatchId, ui |-> ui,
           ev |-> [NoEvent EXCEPT !.lastToggle = ev.lastToggle,
                                  !.sinceReset = ev.sinceReset,
                                  !.selectedCategory = ev.selectedCategory] ]

\* A task: the await it is parked at (pc), the continuations to run when the
\* awaited action returns (ret, innermost first; empty when the caller does
\* nothing more with the store) and the locals of the awaited action.
Idle ==
  [ pc |-> "idle", ret |-> <<>>,
    loc |-> Null,        \* verifiedLocation of the fetch in progress
    type |-> "none",     \* placeType of the fetch in progress
    idx |-> 0,           \* position in typesToFetch
    acc |-> <<>>,        \* allPlaces accumulated so far
    snap |-> Null,       \* permissionStatus captured by the mount effect's closure
    before |-> <<>>,     \* observation: nearbyPlaces when the fetch was called
    got |-> Null,        \* observation: the position getCurrentLocation obtained
    launch |-> FALSE,    \* observation: the mount effect's first check reported granted
    mark |-> "none" ]    \* observation: which toggle this is

Push(t, k) == [t EXCEPT !.ret = << k >> \o @]

\* ------------------------------------------------------ location service
\* getDefaultLocation
GetDefaultLocation == DEFAULT_LOCATION

\* LocationService.stopLocationWatching
ServiceStopLocationWatching(w) ==
  IF w.service.locationWatcherId # Null
  THEN [w EXCEPT !.watches = @ \ w.service.locationWatcherId,
                 !.service.locationWatcherId = Null]
  ELSE w

\* Geolocation.watchPosition: registers a watch and returns its id (0, 1, ...).
WatchPosition(w) ==
  [w EXCEPT !.watches = @ \cup {w.nextWatchId}, !.nextWatchId = @ + 1]

\* A startLocationWatching that does not clear the watch it already holds.
ServiceStartLocationWatchingKeepingPrior(w) ==
  LET w1 == IF w.service.locationWatcherId # Null
            THEN [w EXCEPT !.ev.replacedWatch = w.service.locationWatcherId]
            ELSE w
  IN [WatchPosition(w1) EXCEPT !.service.locationWatcherId = Some(w1.nextWatchId)]

\* LocationService.startLocationWatching
ServiceStartLocationWatching(w) ==
  LET w1 == IF w.service.locationWatcherId # Null
            THEN [ServiceStopLocationWatching(w)
                    EXCEPT !.ev.replacedWatch = w.service.locationWatcherId]
            ELSE w
  IN [WatchPosition(w1) EXCEPT !.service.locationWatcherId = Some(w1.nextWatchId)]

\* ------------------------------------------------------------ store actions
IsUsingDefaultLocation(l) ==
  /\ Abs(l.latitude - GetDefaultLocation.latitude) < CONSISTENCY_TOLERANCE
  /\ Abs(l.longitude - GetDefaultLocation.longitude) < CONSISTENCY_TOLERANCE

\* verifyLocationConsistency: the state after it and the location it returns.
VerifyLocationConsistency(w) ==
  IF w.store.currentLocation = Null THEN [w |-> w, loc |-> Null]
  ELSE IF w.store.useDefaultLocation
          /\ ~IsUsingDefaultLocation(The(w.store.currentLocation))
       THEN [w |-> [w EXCEPT !.store.currentLocation = Some(GetDefaultLocation)],
             loc |-> Some(GetDefaultLocation)]
       ELSE [w |-> w, loc |-> w.store.currentLocation]

\* startLocationWatching of the store
StartLocationWatching(w) ==
  IF w.store.currentLocation = Null THEN w
  ELSE ServiceStartLocationWatching([w EXCEPT !.store.isLocationWatching = TRUE])

\* A stopLocationWatching that clears the watch and leaves the flag.
StopLocationWatchingKeepingFlag(w) == ServiceStopLocationWatching(w)

\* stopLocationWatching of the store
StopLocationWatching(w) ==
  [ServiceStopLocationWatching(w) EXCEPT !.store.isLocationWatching = FALSE]

\* reset
Reset(w) == [StopLocationWatching(w) EXCEPT !.store = initialState]

\* forceMapRefresh: currentLocation is replaced by a copy of itself.
ForceMapRefresh(w) ==
  IF w.store.currentLocation # Null
  THEN [w EXCEPT !.store.currentLocation = Some(The(w.store.currentLocation))]
  ELSE w

\* The message toggleUseDefaultLocation stores when it reverts.
RevertedMessage(cause) ==
  CASE cause = "GPS is not available on this device" ->
         "Failed to get your current location: GPS is not available on this device. Reverted to default location."
    [] cause = "Location permission denied" ->
         "Failed to get your current location: Location permission denied. Reverted to default location."
    [] cause = "Location unavailable" ->
         "Failed to get your current location: Location unavailable. Reverted to default location."
    [] cause = "Location request timed out" ->
         "Failed to get your current location: Location request timed out. Reverted to default location."
    [] OTHER ->
         "Failed to get your current location: Unknown location error. Reverted to default location."

\* Error messages of LocationService.getCurrentLocation by platform error code.
LocationErrorMessage(code) ==
  CASE code = 1 -> "Location permission denied"
    [] code = 2 -> "Location unavailable"
    [] code = 3 -> "Location request timed out"
    [] OTHER -> "Unknown location error"


\* ------------------------------------------------- async actions as tasks
\* Continue(w, t, exc): the awaited action of task t has returned (exc = Null)
\* or thrown (exc = Some(message)); run the continuations on t.ret until the
\* next await or the end of the handler.  The result is the new world and the
\* new task record.
RECURSIVE Continue(_, _, _)

\* fetchNearbyPlaces(type, radius) up to its await; type "none" is undefined.
CallFetchNearbyPlaces(w, t, type) ==
  LET v == VerifyLocationConsistency(w)
      placeType == IF type = "none" THEN w.store.selectedPlaceType ELSE type
  IN IF v.loc = Null
     THEN Continue([v.w EXCEPT !.store.error = Some("No location available"),
                               !.store.isLoading = FALSE], t, Null)
     ELSE [ w |-> [v.w EXCEPT !.store.isLoading = TRUE, !.store.error = Null,
                              !.store.nearbyPlaces = <<>>, !.store.allPlaces = <<>>],
            t |-> [t EXCEPT !.pc = "fetchNearbyPlaces", !.loc = v.loc,
                            !.type = placeType, !.before = w.store.nearbyPlaces] ]

\* A fetchNearbyPlaces that keeps the last list when the request fails.
FetchNearbyPlacesSettledKeepingPlaces(w, t, ok, places, message) ==
  LET w1 == IF ok
            THEN [w EXCEPT !.store.nearbyPlaces = places, !.store.isLoading = FALSE]
            ELSE [w EXCEPT !.store.error = Some(message),
                           !.store.nearbyPlaces = t.before, !.store.isLoading = FALSE]
      w2 == IF ok THEN [w1 EXCEPT !.ev.fetched = t.loc]
            ELSE [w1 EXCEPT !.ev.failedFetch =
                    Some([before |-> t.before, error |-> w1.store.error,
                          nearbyPlaces |-> w1.store.nearbyPlaces])]
  IN Continue(w2, [t EXCEPT !.before = <<>>, !.loc = Null, !.type = "none"], Null)

\* A fetchNearbyPlaces that drops the results of a request made at a
\* location the store has left since.
FetchNearbyPlacesSettledDroppingStale(w, t, ok, places, message) ==
  LET current == w.store.currentLocation = t.loc
      w1 == IF ok
            THEN [w EXCEPT !.store.nearbyPlaces = IF current THEN places ELSE @,
                           !.store.isLoading = FALSE]
            ELSE [w EXCEPT !.store.error = Some(message),
                           !.store.nearbyPlaces = <<>>, !.store.isLoading = FALSE]
      w2 == IF ok THEN [w1 EXCEPT !.ev.fetched = t.loc]
            ELSE [w1 EXCEPT !.ev.failedFetch =
                    Some([before |-> t.before, error |-> w1.store.error,
                          nearbyPlaces |-> w1.store.nearbyPlaces])]
  IN Continue(w2, [t EXCEPT !.before = <<>>, !.loc = Null, !.type = "none"], Null)

\* fetchNearbyPlaces after locationService.getNearbyPlaces settled.
FetchNearbyPlacesSettled(w, t, ok, places, message) ==
  LET w1 == IF ok
            THEN [w EXCEPT !.store.nearbyPlaces = places, !.store.isLoading = FALSE]
            ELSE [w EXCEPT !.store.error = Some(message),
                           !.store.nearbyPlaces = <<>>, !.store.isLoading = FALSE]
      w2 == IF ok THEN [w1 EXCEPT !.ev.fetched = t.loc]
            ELSE [w1 EXCEPT !.ev.failedFetch =
                    Some([before |-> t.before, error |-> w1.store.error,
                          nearbyPlaces |-> w1.store.nearbyPlaces])]
  IN Continue(w2, [t EXCEPT !.before = <<>>, !.loc = Null, !.type = "none"], Null)

\* A fetchAllNearbyPlaces that shows the spinner before it looks for a
\* location.
CallFetchAllNearbyPlacesLoadingFirst(w, t) ==
  LET v == VerifyLocationConsistency(w)
  IN IF v.loc = Null
     THEN Continue([v.w EXCEPT !.store.isLoading = TRUE,
                               !.store.error = Some("No location available")], t, Null)
     ELSE [ w |-> [v.w EXCEPT !.store.isLoading = TRUE, !.store.error = Null,
                              !.store.nearbyPlaces = <<>>, !.store.allPlaces = <<>>],
            t |-> [t EXCEPT !.pc = "fetchAllNearbyPlaces", !.loc = v.loc,
                            !.idx = 1, !.acc = <<>>] ]

\* fetchAllNearbyPlaces(radius) up to its first await.
CallFetchAllNearbyPlaces(w, t) ==
  LET v == VerifyLocationConsistency(w)
  IN IF v.loc = Null
     THEN Continue([v.w EXCEPT !.store.error = Some("No location available")], t, Null)
     ELSE [ w |-> [v.w EXCEPT !.store.isLoading = TRUE, !.store.error = Null,
                              !.store.nearbyPlaces = <<>>, !.store.allPlaces = <<>>],
            t |-> [t EXCEPT !.pc = "fetchAllNearbyPlaces", !.loc = v.loc,
                            !.idx = 1, !.acc = <<>>] ]

\* A loop without the inner try/catch: a rejected request ends the fetch in
\* the outer catch.
FetchAllNearbyPlacesSettledAborting(w0, t, ok, places) ==
  IF ok /\ t.idx < Len(SUPPORTED_PLACE_TYPES)
  THEN [ w |-> w0, t |-> [t EXCEPT !.idx = @ + 1, !.acc = t.acc \o places] ]
  ELSE Continue([w0 EXCEPT !.store.error = Some("Failed to fetch all nearby places"),
                           !.store.nearbyPlaces = <<>>,
                           !.store.isLoading = FALSE,
                           !.ev.categoryFailed =
                             IF ok THEN Null ELSE Some(SUPPORTED_PLACE_TYPES[t.idx])],
                [t EXCEPT !.acc = <<>>, !.idx = 0, !.loc = Null], Null)

\* fetchAllNearbyPlaces after the request for typesToFetch[t.idx] settled.
FetchAllNearbyPlacesSettled(w0, t, ok, places) ==
  LET acc == IF ok THEN t.acc \o places ELSE t.acc
      w == IF ok THEN w0
           ELSE [w0 EXCEPT !.ev.categoryFailed = Some(SUPPORTED_PLACE_TYPES[t.idx])]
  IN IF t.idx < Len(SUPPORTED_PLACE_TYPES)
     THEN [ w |-> w, t |-> [t EXCEPT !.idx = @ + 1, !.acc = acc] ]
     ELSE LET uniquePlaces == SortByDistance(UniquePlaces(acc))
          IN Continue([w EXCEPT !.store.allPlaces = uniquePlaces,
                                !.store.nearbyPlaces = uniquePlaces,
                                !.store.isLoading = FALSE,
                                !.ev.fetchAll = Some(acc)],
                      [t EXCEPT !.acc = <<>>, !.idx = 0, !.loc = Null], Null)

\* getCurrentLocation of the store up to its await.
CallGetCurrentLocation(w, t) ==
  [ w |-> [w EXCEPT !.store.isLoading = TRUE, !.store.error = Null],
    t |-> [t EXCEPT !.pc = "getCurrentLocation"] ]

\* A getCurrentLocation that falls back to the default location on failure.
GetCurrentLocationSettledFallingBack(w, t, ok, location, message) ==
  CallFetchNearbyPlaces(
    [w EXCEPT !.store.currentLocation =
                Some(IF ok THEN location ELSE GetDefaultLocation),
              !.store.error = IF ok THEN @ ELSE Some(message)],
    Push(t, "getCurrentLocation.finally"), "none")

\* getCurrentLocation after locationService.getCurrentLocation settled.
GetCurrentLocationSettled(w, t, ok, location, message) ==
  IF ok
  THEN CallFetchNearbyPlaces(
         [w EXCEPT !.store.currentLocation = Some(location)],
         Push([t EXCEPT !.got = Some(location)], "getCurrentLocation.finally"),
         "none")
  ELSE Continue([w EXCEPT !.store.error = Some(message), !.store.isLoading = FALSE],
                t, Some(message))

\* requestLocationPermission of the store up to its await.
CallRequestLocationPermission(w, t) ==
  [ w |-> [w EXCEPT !.store.isLoading = TRUE, !.store.error = Null],
    t |-> [t EXCEPT !.pc = "requestLocationPermission"] ]

\* A requestLocationPermission that chooses the default location itself when
\* the permission is not granted.
RequestLocationPermissionSettledChoosingDefault(w, t, permission) ==
  IF permission.status = "granted"
  THEN Continue([w EXCEPT !.store.permissionStatus = Some(permission),
                          !.store.isLoading = FALSE], t, Null)
  ELSE CallFetchAllNearbyPlaces(
         [w EXCEPT !.store.permissionStatus = Some(permission),
                   !.store.useDefaultLocation = TRUE,
                   !.store.currentLocation = Some(GetDefaultLocation)], t)

\* A requestLocationPermission without its finally block.
RequestLocationPermissionSettledKeepingSpinner(w, t, permission) ==
  Continue([w EXCEPT !.store.permissionStatus = Some(permission)], t, Null)

\* requestLocationPermission after locationService.requestLocationPermission
\* resolved to permission.
RequestLocationPermissionSettled(w, t, permission) ==
  Continue([w EXCEPT !.store.permissionStatus = Some(permission),
                     !.store.isLoading = FALSE], t, Null)

\* requestLocationPermission after locationService.requestLocationPermission
\* rejected: its catch and finally.
RequestLocationPermissionRejected(w, t) ==
  Continue([w EXCEPT !.store.error = Some("Failed to request location permission"),
                     !.store.isLoading = FALSE], t, Null)

\* requestLocationPermission after its await settled to outcome.
RequestLocationPermissionAfter(w, t, outcome) ==
  IF outcome.settled = "resolved"
  THEN RequestLocationPermissionSettled(w, t, outcome.permission)
  ELSE RequestLocationPermissionRejected(w, t)

\* checkCurrentPermissionStatus up to its await.
CallCheckCurrentPermissionStatus(w, t) ==
  [ w |-> w, t |-> [t EXCEPT !.pc = "checkCurrentPermissionStatus"] ]

\* A checkCurrentPermissionStatus that leaves default mode when the permission
\* is not granted.
CheckCurrentPermissionStatusSettledLeavingDefault(w, t, permission) ==
  Continue([w EXCEPT !.store.permissionStatus = Some(permission),
                     !.store.useDefaultLocation =
                        IF permission.status = "granted" THEN @ ELSE FALSE],
           t, Null)

\* checkCurrentPermissionStatus after locationService.checkPermissionStatus.
CheckCurrentPermissionStatusSettled(w, t, permission) ==
  Continue([w EXCEPT !.store.permissionStatus = Some(permission)], t, Null)

\* toggleUseDefaultLocation, the revert of a failed switch to live GPS.
ToggleRevert(w, t, cause) ==
  LET w1 == [w EXCEPT !.store.currentLocation = Some(GetDefaultLocation),
                      !.store.useDefaultLocation = TRUE,
                      !.store.isLoading = FALSE,
                      !.store.error = Some(RevertedMessage(cause))]
  IN CallFetchAllNearbyPlaces(StopLocationWatching(w1),
                              [Push(t, "toggle.tail") EXCEPT !.mark = "reverted"])

\* A toggleUseDefaultLocation that pins the default location and leaves the
\* watch running.
CallToggleUseDefaultLocationKeepingWatch(w, t) ==
  IF ~w.store.useDefaultLocation
  THEN LET w2 == [w EXCEPT !.store.currentLocation = Some(GetDefaultLocation),
                           !.store.useDefaultLocation = TRUE,
                           !.store.isLoading = FALSE,
                           !.store.error = Null]
       IN CallFetchAllNearbyPlaces(w2,
            [Push(t, "toggle.tail") EXCEPT
               !.mark = IF w.ev.lastToggle = "live" THEN "default after live"
                                                    ELSE "default"])
  ELSE [ w |-> [w EXCEPT !.store.isLoading = TRUE, !.store.error = Null],
         t |-> [t EXCEPT !.pc = "toggle.checkGPSAvailability", !.mark = "live"] ]

\* toggleUseDefaultLocation up to its first await.
CallToggleUseDefaultLocation(w, t) ==
  IF ~w.store.useDefaultLocation
  THEN \* switch to the default location
       LET w1 == StopLocationWatching(w)
           w2 == [w1 EXCEPT !.store.currentLocation = Some(GetDefaultLocation),
                            !.store.useDefaultLocation = TRUE,
                            !.store.isLoading = FALSE,
                            !.store.error = Null]
       IN CallFetchAllNearbyPlaces(w2,
            [Push(t, "toggle.tail") EXCEPT
               !.mark = IF w.ev.lastToggle = "live" THEN "default after live"
                                                    ELSE "default"])
  ELSE \* switch to live GPS
       [ w |-> [w EXCEPT !.store.isLoading = TRUE, !.store.error = Null],
         t |-> [t EXCEPT !.pc = "toggle.checkGPSAvailability", !.mark = "live"] ]

\* toggleUseDefaultLocation after checkGPSAvailability resolved.
ToggleGpsSettled(w, t, gpsAvailable) ==
  IF gpsAvailable
  THEN [ w |-> w, t |-> [t EXCEPT !.pc = "toggle.getCurrentLocation"] ]
  ELSE ToggleRevert(w, t, "GPS is not available on this device")

\* toggleUseDefaultLocation after locationService.getCurrentLocation settled.
ToggleLocationSettled(w, t, ok, location, message) ==
  IF ok
  THEN LET w1 == [w EXCEPT !.store.currentLocation = Some(location),
                           !.store.useDefaultLocation = FALSE,
                           !.store.isLoading = FALSE,
                           !.store.error = Null]
       IN CallFetchNearbyPlaces(StartLocationWatching(w1),
                                Push(t, "toggle.tail"), "none")
  ELSE ToggleRevert(w, t, message)

\* setUseDefaultLocation(false): no fetch is started.
SetUseDefaultLocationFalse(w) == [w EXCEPT !.store.useDefaultLocation = FALSE]

Granted(w) ==
  /\ w.store.permissionStatus # Null
  /\ The(w.store.permissionStatus).status = "granted"

Continue(w, t, exc) ==
  IF t.ret = <<>> THEN [ w |-> w, t |-> Idle ]
  ELSE
    LET k == Head(t.ret)
        r == [t EXCEPT !.ret = Tail(@), !.pc = "running"]
    IN CASE k = "getCurrentLocation.finally" ->
              Continue([w EXCEPT !.store.isLoading = FALSE], r, Null)
         [] k = "toggle.tail" ->
              \* forceMapRefresh, getCurrentStatus; the promise resolves
              LET w1 == ForceMapRefresh(w)
              IN Continue([w1 EXCEPT
                             !.ev.toggle = Some(t.mark),
                             !.ev.lastToggle = IF t.mark = "default after live"
                                               THEN "default" ELSE t.mark],
                          [r EXCEPT !.mark = "none"], Null)
         [] k = "handleLocationToggle.tail" ->
              Continue([w EXCEPT !.ev.selectedCategory = "all"], r, Null)
         [] k = "handleRequestPermission.tail" ->
              Continue([w EXCEPT !.ui.hasMadeChoice = FALSE], r, Null)
         [] k = "handleUseLiveLocation.tail" ->
              IF exc # Null                              \* Alert.alert
              THEN Continue([w EXCEPT !.ev.liveChoice = Some(LiveChoice("failed", Null))], r, Null)
              ELSE Continue([SetUseDefaultLocationFalse(StartLocationWatching(w))
                               EXCEPT !.ui.hasMadeChoice = TRUE,
                                      !.ev.liveChoice =
                                         Some(LiveChoice("done", t.got))],
                            [r EXCEPT !.got = Null], Null)
         [] k = "checkPermission.first" ->
              LET w1 == IF t.snap # Null /\ The(t.snap).status = "granted"
                        THEN [w EXCEPT !.ui.wasLocationPreviouslyGranted = TRUE]
                        ELSE w
                  w2 == [w1 EXCEPT !.store.permissionStatus = Null]
              IN CallCheckCurrentPermissionStatus(w2,
                   Push([r EXCEPT !.launch = Granted(w)], "checkPermission.second"))
         [] k = "checkPermission.second" ->
              LET requests == t.snap = Null \/ The(t.snap).status # "granted"
                  w1 == [w EXCEPT !.ev.mountCheck =
                           Some([granted |-> Granted(w), requests |-> requests])]
              IN IF requests
                 THEN CallRequestLocationPermission(w1, r)
                 ELSE Continue(w1, r, Null)
         [] k = "handleRequestLocationAccess.requested" ->
              CallCheckCurrentPermissionStatus(w,
                Push(r, "handleRequestLocationAccess.checked"))
         [] k = "handleRequestLocationAccess.checked" ->
              IF Granted(w)
              THEN CallGetCurrentLocation(w,
                     Push(Push(r, "handleRequestLocationAccess.finally"),
                          "handleRequestLocationAccess.located"))
              ELSE Continue(w, Push(r, "handleRequestLocationAccess.finally"), Null)
         [] k = "handleRequestLocationAccess.located" ->
              IF exc # Null THEN Continue(w, r, Null)   \* caught, console.error
              ELSE CallToggleUseDefaultLocation(StartLocationWatching(w), r)
         [] k = "handleRequestLocationAccess.finally" ->
              Continue([w EXCEPT !.store.isLoading = FALSE], r, Null)
         [] OTHER -> [ w |-> w, t |-> Idle ]


\* ------------------------------------------------------------- the screen
\* NearbyPlacesScreen renders LocationPermissionComponent instead of the map.
ShowsPermissionScreen(w) ==
  \/ w.store.permissionStatus = Null
  \/ (~Granted(w) /\ ~w.store.useDefaultLocation)
  \/ (w.store.currentLocation = Null /\ ~w.store.useDefaultLocation)

\* Which card LocationPermissionComponent renders.
PermissionCard(w) ==
  IF w.ui.hasMadeChoice
     /\ (w.store.currentLocation # Null \/ w.store.useDefaultLocation) THEN "none"
  ELSE IF Granted(w) /\ ~w.ui.hasMadeChoice THEN "choice"
  ELSE IF w.store.permissionStatus # Null
          /\ The(w.store.permissionStatus).status = "never_ask_again" THEN "settings"
  ELSE IF w.store.permissionStatus # Null
          /\ The(w.store.permissionStatus).status = "denied" THEN "request"
  ELSE IF w.store.permissionStatus = Null THEN "welcome"
  ELSE "none"

\* The component state of LocationPermissionComponent lives only while the
\* component is mounted.
Rendered(w) ==
  IF ShowsPermissionScreen(w) THEN w ELSE [w EXCEPT !.ui.hasMadeChoice = FALSE]

Permission(status, canAskAgain) == [status |-> status, canAskAgain |-> canAskAgain]

Platforms == { "ios", "android" }

\* What Geolocation.requestAuthorization('whenInUse') gives, or that it throws.
IosAuthorizations == { "granted", "denied", "restricted", "disabled", "throws" }

\* What PermissionsAndroid.request gives, or that it throws.
AndroidRequestResults == { "granted", "denied", "never_ask_again", "throws" }

\* What the platform's status check gives: PermissionsAndroid.check (granted or
\* not), Geolocation.getCurrentPosition on iOS (a position or an error code),
\* or that the call throws.
AndroidCheckResults == { "granted", "denied", "throws" }
IosCheckResults == { "position", "code 1", "code 2", "code 3", "throws" }

\* A requestIOSPermission that lets the platform's error through.
RequestIOSPermissionRethrowing(r) ==
  IF r = "throws" THEN [settled |-> "rejected", permission |-> Permission("denied", TRUE)]
  ELSE [settled |-> "resolved",
        permission |-> CASE r = "granted" -> Permission("granted", TRUE)
                         [] r = "restricted" -> Permission("restricted", FALSE)
                         [] OTHER -> Permission("denied", TRUE)]

\* LocationService.requestIOSPermission
RequestIOSPermission(r) ==
  [settled |-> "resolved",
   permission |-> CASE r = "granted" -> Permission("granted", TRUE)
                    [] r = "denied" -> Permission("denied", TRUE)
                    [] r = "restricted" -> Permission("restricted", FALSE)
                    [] r = "throws" -> Permission("denied", TRUE)
                    [] OTHER -> Permission("denied", TRUE)]

\* A requestAndroidPermission for which one can always ask again.
RequestAndroidPermissionAskingAgain(r) ==
  [settled |-> "resolved",
   permission |-> CASE r = "granted" -> Permission("granted", TRUE)
                    [] r = "never_ask_again" -> Permission("never_ask_again", TRUE)
                    [] OTHER -> Permission("denied", TRUE)]

\* LocationService.requestAndroidPermission
RequestAndroidPermission(r) ==
  [settled |-> "resolved",
   permission |-> CASE r = "granted" -> Permission("granted", TRUE)
                    [] r = "denied" -> Permission("denied", TRUE)
                    [] r = "never_ask_again" -> Permission("never_ask_again", FALSE)
                    [] r = "throws" -> Permission("denied", TRUE)
                    [] OTHER -> Permission("denied", TRUE)]

\* LocationService.requestLocationPermission
ServiceRequestLocationPermission(os, r) ==
  IF os = "ios" THEN RequestIOSPermission(r) ELSE RequestAndroidPermission(r)

\* What the platform can answer to a permission request on a platform.
PlatformRequestResults(os) ==
  IF os = "ios" THEN IosAuthorizations ELSE AndroidRequestResults

\* LocationService.checkAndroidPermissionStatus
CheckAndroidPermissionStatus(r) ==
  CASE r = "granted" -> Permission("granted", TRUE)
    [] r = "denied" -> Permission("denied", TRUE)
    [] OTHER -> Permission("denied", TRUE)

\* LocationService.checkIOSPermissionStatus
CheckIOSPermissionStatus(r) ==
  CASE r = "position" -> Permission("granted", TRUE)
    [] r = "code 1" -> Permission("denied", TRUE)
    [] r = "code 2" -> Permission("denied", TRUE)
    [] OTHER -> Permission("denied", TRUE)

\* Results of locationService.requestLocationPermission / checkPermissionStatus.
RequestResults ==
  UNION { { ServiceRequestLocationPermission(os, r).permission :
              r \in PlatformRequestResults(os) } : os \in Platforms }

\* LocationService.checkPermissionStatus
ServiceCheckPermissionStatus(os, r) ==
  IF os = "ios" THEN CheckIOSPermissionStatus(r) ELSE CheckAndroidPermissionStatus(r)

PlatformCheckResults(os) ==
  IF os = "ios" THEN IosCheckResults ELSE AndroidCheckResults

CheckResults ==
  UNION { { ServiceCheckPermissionStatus(os, r) : r \in PlatformCheckResults(os) } :
            os \in Platforms }

\* Error codes of Geolocation.getCurrentPosition.
PositionErrorCodes == {1, 2, 3}

\* Messages of the errors nearbyPlacesApiService rejects with.
ApiErrorMessages == { "Request timeout" }

\* ------------------------------------ NearbyPlacesApiService: makeRequest
MaxAttempts == 5

TIMEOUT == 10000
RETRY_ATTEMPTS == 3
RATE_LIMIT_DELAY == 1000

Endpoints == { "/api/health", "/api/places/nearby", "/api/places/:id" }

\* Milliseconds a server takes to answer (always before the 10 s timer).
Latencies == { 200 }

Statuses == { 200, 404, 429, 500 }

\* response.ok
ResponseOk(status) == status >= 200 /\ status <= 299

\* Values of response.headers.get('Retry-After'): Null when the header is
\* absent, else its text as a sequence of characters: delay-seconds, an empty
\* value, an HTTP-date.
RetryAfterHeaders ==
  { Null, Some(<< "2" >>), Some(<< "1", "0" >>), Some(<< >>),
    Some(<< "W", "e", "d", ",", " ", "2", "1" >>) }

Digits == { "0", "1", "2", "3", "4", "5", "6", "7", "8", "9" }

DigitValue(c) ==
  CASE c = "0" -> 0 [] c = "1" -> 1 [] c = "2" -> 2 [] c = "3" -> 3
    [] c = "4" -> 4 [] c = "5" -> 5 [] c = "6" -> 6 [] c = "7" -> 7
    [] c = "8" -> 8 [] c = "9" -> 9

\* parseInt(string): skips leading blanks, reads the longest prefix of decimal
\* digits; NaN (Null) when there is none.
RECURSIVE ReadDigits(_, _)
ReadDigits(s, n) ==
  IF s # << >> /\ Head(s) \in Digits
  THEN ReadDigits(Tail(s), 10 * n + DigitValue(Head(s)))
  ELSE n

RECURSIVE ParseInt(_)
ParseInt(s) ==
  IF s = << >> THEN Null
  ELSE IF Head(s) = " " THEN ParseInt(Tail(s))
  ELSE IF Head(s) \in Digits THEN Some(ReadDigits(s, 0))
  ELSE Null

\* retryAfter ? parseInt(retryAfter) * 1000 : this.rateLimitDelay
\* (null and the empty string are falsy; NaN * 1000 is NaN, here Null).
RateLimitDelayKeepingDefault(retryAfter) == Some(RATE_LIMIT_DELAY)

RateLimitDelay(retryAfter) ==
  IF retryAfter = Null \/ The(retryAfter) = << >>
  THEN Some(RATE_LIMIT_DELAY)
  ELSE { n * 1000 : n \in ParseInt(The(retryAfter)) }

\* setTimeout(resolve, ms): a NaN delay is a delay of 0.
TimerMs(delay) == IF delay = Null THEN 0 ELSE The(delay)

Text(m) == [text |-> m, status |-> 0]

\* new Error(`HTTP ${response.status}: ${response.statusText}`)
HttpError(status) ==
  [isError |-> TRUE, name |-> "Error", message |-> [text |-> "HTTP", status |-> status]]

\* What fetch rejects with when the controller aborts it.
AbortError == [isError |-> TRUE, name |-> "AbortError", message |-> Text("Aborted")]

\* What fetch can reject with otherwise: the platform's TypeError, with the
\* platform's message, or (a non-standard fetch) a value that is no Error.
FetchFailures ==
  { [isError |-> TRUE, name |-> "TypeError", message |-> Text("Network request failed")],
    [isError |-> TRUE, name |-> "TypeError", message |-> Text("Network request timed out")],
    [isError |-> FALSE, name |-> "", message |-> Text("")] }

\* What response.json() rejects with on a body that is not JSON.
BodyFailure ==
  [isError |-> TRUE, name |-> "SyntaxError", message |-> Text("JSON Parse error")]

ApiIdle ==
  [ phase |-> "idle",       \* idle, fetching, waiting, parsing, resolved, rejected
    endpoint |-> "none", options |-> "{}",
    timeout |-> TIMEOUT, retryAttempts |-> RETRY_ATTEMPTS,
    rateLimitDelay |-> RATE_LIMIT_DELAY,
    now |-> 0,              \* the clock, ms
    attempt |-> 0,          \* fetch calls issued
    calls |-> << >>,        \* the fetch calls: endpoint, options, time
    timers |-> {},          \* armed timeout timers: attempt and deadline
    aborted |-> FALSE,      \* the current attempt's controller has aborted
    results |-> << >>,      \* how the fetch of each attempt ended
    failure |-> "none",     \* where the caught error came from
    waits |-> << >>,        \* the 429 waits: header, delay, start
    thrown |-> Null,        \* what the catch block caught
    outcome |-> Null,       \* Some(message) once the promise is rejected / "data"
    caller |-> Null ]       \* what the caller of makeRequest settled to

\* makeRequest up to its await of fetch: a new controller, a new timer, fetch.
MakeRequest(a) ==
  [a EXCEPT !.phase = "fetching",
            !.attempt = @ + 1,
            !.aborted = FALSE,
            !.timers = @ \cup { [attempt |-> a.attempt + 1, deadline |-> a.now + a.timeout] },
            !.calls = Append(@, [endpoint |-> a.endpoint, options |-> a.options,
                                 at |-> a.now])]

\* clearTimeout(timeoutId) of the current attempt
ClearTimeout(a) == [a EXCEPT !.timers = { t \in @ : t.attempt # a.attempt }]

\* The message of the error the catch block throws for what it caught.
CatchAsNetworkFailure(thrown) == Text("Network request failed")

CatchMessage(thrown) ==
  IF thrown.isError
  THEN IF thrown.name = "AbortError" THEN Text("Request timeout") ELSE thrown.message
  ELSE Text("Network request failed")

\* The catch block of makeRequest.
Catch(a, kind, thrown) ==
  [ClearTimeout(a) EXCEPT !.phase = "rejected",
                          !.results = IF kind = "body" THEN @ ELSE Append(@, kind),
                          !.failure = kind,
                          !.thrown = Some(thrown),
                          !.outcome = Some(CatchMessage(thrown))]

\* return this.makeRequest<T>(endpoint, options), after the delay
RetryWithinAttempts(a) ==
  IF a.attempt < a.retryAttempts THEN MakeRequest(a)
  ELSE [a EXCEPT !.phase = "rejected", !.outcome = Some(Text("Too many requests"))]

RetryRequest(a) == MakeRequest(a)

\* makeRequest from the response to its next await, return or throw.
OnResponse(a, status, retryAfter) ==
  LET a1 == ClearTimeout(a)
  IN IF status = 429
     THEN LET delay == RateLimitDelay(retryAfter)
          IN [a1 EXCEPT !.phase = "waiting",
                        !.results = Append(@, "429"),
                        !.waits = Append(@, [header |-> retryAfter, delay |-> delay,
                                             at |-> a1.now])]
     ELSE IF ~ResponseOk(status) THEN Catch(a1, "http", HttpError(status))
     ELSE [a1 EXCEPT !.phase = "parsing", !.results = Append(@, "ok")]

\* ---------------------------- NearbyPlacesApiService: getNearbyPlaces
MaxPlaces == 2

\* The places a NearbyPlacesResponse can carry (distance in km).
ServerPlaces ==
  [ id : { "p1", "p2" }, type : PlaceTypeSet, distance : { 1, 2 } ]

\* response.places: Null when the body has no places field.
PlacesBodies ==
  { Null } \cup
  { Some(s) : s \in UNION { [1..n -> ServerPlaces] : n \in 0..MaxPlaces } }

NoTransform ==
  [ phase |-> "none", type |-> "none", failed |-> FALSE, body |-> Null, result |-> << >> ]

\* getNearbyPlaces after makeRequest has resolved with the body.
ApiGetNearbyPlaces(body) ==
  IF body # Null THEN TransformPlaces(The(body)) ELSE << >>

\* A getNearbyPlaces that throws when the body carries no place.
GetNearbyPlacesOutcomeRejectingEmpty(failed, body) ==
  IF failed \/ body = Null \/ body = Some(<< >>)
  THEN [ phase |-> "rejected", result |-> << >> ]
  ELSE [ phase |-> "returned", result |-> ApiGetNearbyPlaces(body) ]

\* getNearbyPlaces, its try and catch: what the call settles to when makeRequest
\* rejected (failed) or resolved with a body.
GetNearbyPlacesOutcome(failed, body) ==
  IF failed
  THEN [ phase |-> "rejected", result |-> << >> ]
  ELSE [ phase |-> "returned", result |-> ApiGetNearbyPlaces(body) ]

\* ----------------------------------------------------------------- steps
Commit(res) ==
  LET w == Rendered(res.w)
  IN /\ store' = w.store
     /\ service' = w.service
     /\ watches' = w.watches
     /\ nextWatchId' = w.nextWatchId
     /\ ui' = w.ui
     /\ ev' = w.ev
     /\ UNCHANGED << api, xf >>

\* A handler starts: it runs to its first await (or to its end).
Spawn(res) ==
  /\ BagCardinality(tasks) < MaxTasks
  /\ Commit([res EXCEPT !.w.ev.sinceReset = FALSE])
  /\ tasks' = IF res.t.pc = "idle" THEN tasks ELSE tasks (+) SetToBag({res.t})

\* The user starts a handler.
Press(res) ==
  /\ ui.mounted
  /\ presses < MaxPresses
  /\ presses' = presses + 1
  /\ Spawn(res)

\* The await of task t settles: it runs to its next await (or to its end).
Resume(t, res) ==
  /\ UNCHANGED presses
  /\ Commit(res)
  /\ tasks' = IF res.t.pc = "idle" THEN tasks (-) SetToBag({t})
              ELSE (tasks (-) SetToBag({t})) (+) SetToBag({res.t})

Parked(pc) == { t \in BagToSet(tasks) : t.pc = pc }

Handler(ret) == [Idle EXCEPT !.ret = ret]

Init ==
  /\ store = initialState
  /\ \E os \in Platforms : service = [locationWatcherId |-> Null, os |-> os]
  /\ watches = {}
  /\ nextWatchId = 0
  /\ ui = [ hasMadeChoice |-> FALSE,
            hasAttemptedLocationAccess |-> FALSE,
            wasLocationPreviouslyGranted |-> FALSE, mounted |-> FALSE ]
  /\ tasks = EmptyBag
  /\ presses = 0
  /\ ev = NoEvent
  /\ api = ApiIdle
  /\ xf = NoTransform

\* useEffect(checkPermission, []) of NearbyPlacesScreen
MountScreen ==
  /\ ~ui.mounted
  /\ UNCHANGED presses
  /\ Spawn(CallCheckCurrentPermissionStatus(
       [World EXCEPT !.ui.mounted = TRUE],
       [Handler(<< "checkPermission.first" >>)
          EXCEPT !.snap = store.permissionStatus]))

\* LocationPermissionComponent.handleRequestPermission
PressAllowLocation ==
  /\ ShowsPermissionScreen(World)
  /\ PermissionCard(World) \in {"request", "welcome"}
  /\ ~store.isLoading
  /\ Press(CallRequestLocationPermission(World,
       Handler(<< "handleRequestPermission.tail" >>)))

\* LocationPermissionComponent.handleUseLiveLocation
PressUseLiveLocation ==
  /\ ShowsPermissionScreen(World)
  /\ PermissionCard(World) = "choice"
  /\ ~store.isLoading
  /\ Press(CallGetCurrentLocation([World EXCEPT !.ev.liveChoice =
                                                   Some(LiveChoice("called", Null))],
       Handler(<< "handleUseLiveLocation.tail" >>)))

\* LocationPermissionComponent.handleUseDefaultLocation, setUseDefaultLocation(true)
PressUseDefaultLocation ==
  /\ ShowsPermissionScreen(World)
  /\ PermissionCard(World) \in {"choice", "request", "welcome"}
  /\ ~store.isLoading
  /\ Press(CallFetchAllNearbyPlaces(
       [World EXCEPT !.store.useDefaultLocation = TRUE,
                     !.store.currentLocation = Some(GetDefaultLocation),
                     !.ui.hasMadeChoice = TRUE],
       Handler(<<>>)))

\* NearbyPlacesScreen.handleLocationToggle
PressLocationToggle ==
  /\ ~ShowsPermissionScreen(World)
  /\ Granted(World)
  /\ ~store.isLoading
  /\ Press(CallToggleUseDefaultLocation(World,
       Handler(<< "handleLocationToggle.tail" >>)))

\* NearbyPlacesScreen renders the "Allow Location" button.
ShowsAllowLocationButton(w) ==
  /\ ~ShowsPermissionScreen(w)
  /\ w.store.useDefaultLocation
  /\ ~w.ui.hasAttemptedLocationAccess
  /\ ~w.ui.wasLocationPreviouslyGranted

\* NearbyPlacesScreen.handleRequestLocationAccess ("Allow Location")
PressRequestLocationAccess ==
  /\ ShowsAllowLocationButton(World)
  /\ ~store.isLoading
  /\ Press(CallRequestLocationPermission(
       [World EXCEPT !.ui.hasAttemptedLocationAccess = TRUE,
                     !.store.isLoading = TRUE],
       Handler(<< "handleRequestLocationAccess.requested" >>)))

\* A handleTypeChange that reuses the cached list for 'all' in either mode.
HandleTypeChangeReusingCache(w, type) ==
  LET t == Handler(<<>>)
  IN IF type = "all"
     THEN IF Len(w.store.nearbyPlaces) = 0
          THEN CallFetchAllNearbyPlaces(w, t)
          ELSE Continue(w, t, Null)
     ELSE CallFetchNearbyPlaces(w, t, type)

\* A handleTypeChange that returns to the default location for 'all'.
HandleTypeChangeMovingToDefault(w, type) ==
  LET t == Handler(<<>>)
  IN IF type = "all"
     THEN CallFetchAllNearbyPlaces(
            [w EXCEPT !.store.currentLocation = Some(GetDefaultLocation)], t)
     ELSE CallFetchNearbyPlaces(w, t, type)

\* PlacesListComponent.handleTypeChange(type), run in w
HandleTypeChange(w, type) ==
  LET t == Handler(<<>>)
  IN IF type = "all"
     THEN IF w.store.useDefaultLocation \/ Len(w.store.nearbyPlaces) = 0
          THEN CallFetchAllNearbyPlaces(w, t)
          ELSE Continue(w, t, Null)
     ELSE CallFetchNearbyPlaces(w, t, type)

\* The user presses a category tab. The tab selected is state of the screen
\* that no store action reads; this action leaves it out.
PressCategory(type) ==
  /\ ~ShowsPermissionScreen(World)
  /\ Press(HandleTypeChange(World, type))

\* NearbyPlacesScreen.handleRetry, retryFetchPlaces
PressRetry ==
  /\ ~ShowsPermissionScreen(World)
  /\ store.error # Null
  /\ IF store.currentLocation # Null
     THEN Press(CallFetchNearbyPlaces(World, Handler(<<>>),
                                      store.selectedPlaceType))
     ELSE Press(Continue(World, Handler(<<>>), Null))

\* NearbyPlacesScreen.handleRefresh
PullToRefresh ==
  /\ ~ShowsPermissionScreen(World)
  /\ store.currentLocation # Null
  /\ Press(CallFetchNearbyPlaces(World, Handler(<<>>), "none"))

\* locationService.getNearbyPlaces settles for a fetchNearbyPlaces
NearbyPlacesRequestSettles ==
  \E t \in Parked("fetchNearbyPlaces") :
    \/ \E body \in ServerResponses(t.type) :
         Resume(t, FetchNearbyPlacesSettled(World, t, TRUE,
                                            ServiceGetNearbyPlaces(body), ""))
    \/ \E m \in ApiErrorMessages :
         Resume(t, FetchNearbyPlacesSettled(World, t, FALSE, <<>>, m))

\* locationService.getNearbyPlaces settles for one category of fetchAllNearbyPlaces
CategoryRequestSettles ==
  \E t \in Parked("fetchAllNearbyPlaces") :
    \/ \E body \in ServerResponses(SUPPORTED_PLACE_TYPES[t.idx]) :
         Resume(t, FetchAllNearbyPlacesSettled(World, t, TRUE,
                                               ServiceGetNearbyPlaces(body)))
    \/ Resume(t, FetchAllNearbyPlacesSettled(World, t, FALSE, <<>>))

\* locationService.getCurrentLocation settles for the store's getCurrentLocation
CurrentLocationSettles ==
  \E t \in Parked("getCurrentLocation") :
    \/ \E l \in GpsLocations :
         Resume(t, GetCurrentLocationSettled(World, t, TRUE, l, ""))
    \/ \E c \in PositionErrorCodes :
         LET res == GetCurrentLocationSettled(World, t, FALSE, DEFAULT_LOCATION,
                                              LocationErrorMessage(c))
         IN Resume(t, [res EXCEPT !.w.ev.locationFailed = Some(c)])

\* locationService.requestLocationPermission resolves
PermissionRequestSettles ==
  \E t \in Parked("requestLocationPermission") :
    \E r \in PlatformRequestResults(service.os) :
      LET res == RequestLocationPermissionAfter(World, t,
                   ServiceRequestLocationPermission(service.os, r))
      IN Resume(t, [res EXCEPT !.w.ev.permissionRequest =
                                  Some([threw |-> r = "throws"]),
                               !.w.ev.launchGranted = t.launch,
                               !.t.launch = FALSE])

\* locationService.checkPermissionStatus resolves
PermissionCheckSettles ==
  \E t \in Parked("checkCurrentPermissionStatus") :
    \E r \in PlatformCheckResults(service.os) :
      Resume(t, CheckCurrentPermissionStatusSettled(World, t,
                  ServiceCheckPermissionStatus(service.os, r)))

\* locationService.checkGPSAvailability resolves inside toggleUseDefaultLocation
GpsAvailabilitySettles ==
  \E t \in Parked("toggle.checkGPSAvailability") : \E available \in BOOLEAN :
    Resume(t, ToggleGpsSettled(World, t, available))

\* locationService.getCurrentLocation settles inside toggleUseDefaultLocation
ToggleLocationSettles ==
  \E t \in Parked("toggle.getCurrentLocation") :
    \/ \E l \in GpsLocations :
         LET res == ToggleLocationSettled(World, t, TRUE, l, "")
         IN Resume(t, IF res.t.pc = "fetchNearbyPlaces"
                      THEN [res EXCEPT !.w.ev.liveFetch =
                              Some([type |-> res.t.type,
                                    selected |-> ev.selectedCategory])]
                      ELSE res)
    \/ \E c \in PositionErrorCodes :
         Resume(t, ToggleLocationSettled(World, t, FALSE, DEFAULT_LOCATION,
                                         LocationErrorMessage(c)))

\* The success callback of every active platform watch: the service's
\* callback, then the store's onLocationUpdate.
\* An onLocationUpdate that begins a refresh of the places.
OnLocationUpdateRefreshing(w, l) ==
  [w EXCEPT !.store.currentLocation = Some(l),
            !.store.isLocationWatching = TRUE,
            !.store.isLoading = TRUE,
            !.store.nearbyPlaces = <<>>, !.store.allPlaces = <<>>]

OnLocationUpdate(w, l) ==
  [w EXCEPT !.store.currentLocation = Some(l),
            !.store.isLocationWatching = TRUE]

RECURSIVE DeliverPosition(_, _, _)
DeliverPosition(w, ids, l) ==
  IF ids = {} THEN w
  ELSE LET id == CHOOSE i \in ids : TRUE
       IN DeliverPosition(OnLocationUpdate(w, l), ids \ {id}, l)

\* The device moves: every active watch reports the new position.
PositionChanges ==
  /\ watches # {}
  /\ \E l \in GpsLocations :
       /\ Commit([w |-> [DeliverPosition(World, watches, l)
                           EXCEPT !.ev.positionUpdate = Some(l)]])
       /\ UNCHANGED << tasks, presses >>

\* An error callback that gives the watch up.
OnWatchErrorStoppingWatch(w) ==
  StopLocationWatching([w EXCEPT !.store.error = Some("Location tracking error")])

\* startLocationWatching of the store: the error callback
OnWatchError(w) == [w EXCEPT !.store.error = Some("Location tracking error")]

\* An active watch reports an error.
WatchError ==
  /\ watches # {}
  /\ Commit([w |-> OnWatchError(World)])
  /\ UNCHANGED << tasks, presses >>

Next ==
  \/ MountScreen
  \/ presses < MaxScreenPresses /\ PressAllowLocation
  \/ presses < MaxScreenPresses /\ PressUseLiveLocation
  \/ presses < MaxScreenPresses /\ PressUseDefaultLocation
  \/ presses < MaxScreenPresses /\ PressLocationToggle
  \/ presses < MaxScreenPresses /\ PressRequestLocationAccess
  \/ presses < MaxScreenPresses /\ \E type \in PlaceTypeSet \cup {"all"} : PressCategory(type)
  \/ presses < MaxScreenPresses /\ PressRetry
  \/ presses < MaxScreenPresses /\ PullToRefresh
  \/ NearbyPlacesRequestSettles
  \/ CategoryRequestSettles
  \/ CurrentLocationSettles
  \/ PermissionRequestSettles
  \/ PermissionCheckSettles
  \/ GpsAvailabilitySettles
  \/ ToggleLocationSettles
  \/ PositionChanges
  \/ WatchError

Spec == Init /\ [][Next]_vars

\* ------------------------------------------------ the store with reset()
\* reset() is called while the handlers of the launch flow may be in flight.
CallReset ==
  /\ Commit([w |-> [Reset(World) EXCEPT !.ev.sinceReset = TRUE]])
  /\ UNCHANGED << tasks, presses >>

NextReset ==
  \/ MountScreen
  \/ PressUseLiveLocation
  \/ PressUseDefaultLocation
  \/ NearbyPlacesRequestSettles
  \/ CategoryRequestSettles
  \/ CurrentLocationSettles
  \/ PermissionRequestSettles
  \/ PermissionCheckSettles
  \/ PositionChanges
  \/ CallReset

SpecReset == Init /\ [][NextReset]_vars

\* ------------------------------------ the screen with its category tabs
\* handleCategoryChange (setSelectedCategory) and handleTypeChange: the user
\* presses a category tab, and the tab selected is followed.
SelectCategory(type) ==
  /\ ~ShowsPermissionScreen(World)
  /\ Press(HandleTypeChange([World EXCEPT !.ev.selectedCategory = type], type))

NextTabs ==
  \/ MountScreen
  \/ PressUseDefaultLocation
  \/ PressLocationToggle
  \/ \E type \in PlaceTypeSet \cup {"all"} : SelectCategory(type)
  \/ NearbyPlacesRequestSettles
  \/ CategoryRequestSettles
  \/ PermissionRequestSettles
  \/ PermissionCheckSettles
  \/ GpsAvailabilitySettles
  \/ ToggleLocationSettles
  \/ PositionChanges
  \/ WatchError

SpecTabs == Init /\ [][NextTabs]_vars

\* ------------------------------------------- the store, one set() at a time
\* zustand notifies the subscribers inside every set(), so a subscriber sees
\* the store after each set() of an action. Here a step is one set() of
\* setCurrentLocation, setUseDefaultLocation or fetchNearbyPlaces (task.pc is
\* the next set() or await of the action); fetchAllNearbyPlaces is followed
\* set() by set() up to its first await.

\* An action of the store is invoked and runs up to its first set(), included.
Invoke(store1, started) ==
  /\ BagCardinality(tasks) + Cardinality(started) <= MaxTasks
  /\ presses' = presses + 1
  /\ store' = store1
  /\ tasks' = tasks (+) SetToBag(started)
  /\ ev' = World.ev
  /\ UNCHANGED << service, watches, nextWatchId, ui, api, xf >>

\* The action of task t runs its next set() and stops before the one at pc
\* (or ends, pc = "idle"), with the locals of t1.
SetState(t, t1, store1, pc) ==
  /\ store' = store1
  /\ tasks' = (tasks (-) SetToBag({t}))
                 (+) (IF pc = "idle" THEN EmptyBag
                      ELSE SetToBag({[t1 EXCEPT !.pc = pc]}))
  /\ ev' = World.ev
  /\ UNCHANGED << service, watches, nextWatchId, ui, presses, api, xf >>

\* setCurrentLocation(location)
SetCurrentLocation ==
  /\ presses < MaxPresses
  /\ \E l \in GpsLocations :
       Invoke([store EXCEPT !.currentLocation = Some(l)], {})

\* setUseDefaultLocation(useDefault): set({ useDefaultLocation: useDefault })
SetUseDefaultLocationFlag ==
  /\ presses < MaxPresses
  /\ \E useDefault \in BOOLEAN :
       Invoke([store EXCEPT !.useDefaultLocation = useDefault],
              IF useDefault
              THEN {[Idle EXCEPT !.pc = "setUseDefaultLocation.currentLocation"]}
              ELSE {})

\* setUseDefaultLocation(true): set({ currentLocation: defaultLocation }),
\* then fetchAllNearbyPlaces() up to its first set()
SetUseDefaultLocationPin ==
  \E t \in Parked("setUseDefaultLocation.currentLocation") :
    LET store1 == [store EXCEPT !.currentLocation = Some(GetDefaultLocation)]
        v == VerifyLocationConsistency([World EXCEPT !.store = store1])
    IN SetState(t, [t EXCEPT !.loc = v.loc], store1, "fetchAllNearbyPlaces.loading")

\* fetchAllNearbyPlaces: set({ error: 'No location available' }), or
\* set({ isLoading: true, error: null })
FetchAllSetLoading ==
  \E t \in Parked("fetchAllNearbyPlaces.loading") :
    IF t.loc = Null
    THEN SetState(t, t, [store EXCEPT !.error = Some("No location available")], "idle")
    ELSE SetState(t, t, [store EXCEPT !.isLoading = TRUE, !.error = Null],
                  "fetchAllNearbyPlaces.clear")

\* fetchAllNearbyPlaces: set({ nearbyPlaces: [], allPlaces: [] }), then the
\* first request
FetchAllClearPlaces ==
  \E t \in Parked("fetchAllNearbyPlaces.clear") :
    SetState(t, [t EXCEPT !.idx = 1, !.acc = <<>>],
             [store EXCEPT !.nearbyPlaces = <<>>, !.allPlaces = <<>>],
             "fetchAllNearbyPlaces")

\* fetchNearbyPlaces(type): verifyLocationConsistency, with the set() it makes
\* when it corrects the location
FetchVerify ==
  /\ presses < MaxPresses
  /\ \E type \in PlaceTypeSet :
       LET v == VerifyLocationConsistency(World)
       IN Invoke(v.w.store,
                 {[Idle EXCEPT !.pc = "fetchNearbyPlaces.loading",
                               !.loc = v.loc, !.type = type]})

\* fetchNearbyPlaces: set({ error: 'No location available' }), or
\* set({ isLoading: true, error: null })
FetchSetLoading ==
  \E t \in Parked("fetchNearbyPlaces.loading") :
    IF t.loc = Null
    THEN SetState(t, t, [store EXCEPT !.error = Some("No location available")],
                  "fetchNearbyPlaces.finally")
    ELSE SetState(t, t, [store EXCEPT !.isLoading = TRUE, !.error = Null],
                  "fetchNearbyPlaces.clear")

\* fetchNearbyPlaces: set({ nearbyPlaces: [], allPlaces: [] }), then the request
FetchClearPlaces ==
  \E t \in Parked("fetchNearbyPlaces.clear") :
    SetState(t, t, [store EXCEPT !.nearbyPlaces = <<>>, !.allPlaces = <<>>],
             "fetchNearbyPlaces.request")

\* fetchNearbyPlaces: the request resolves, set({ nearbyPlaces: places })
FetchSetPlaces ==
  \E t \in Parked("fetchNearbyPlaces.request") :
    \E body \in ServerResponses(t.type) :
      SetState(t, t, [store EXCEPT !.nearbyPlaces = ServiceGetNearbyPlaces(body)],
               "fetchNearbyPlaces.finally")

\* fetchNearbyPlaces: the request rejects, set({ error: errorMessage })
FetchSetError ==
  \E t \in Parked("fetchNearbyPlaces.request") :
    \E m \in ApiErrorMessages :
      SetState(t, t, [store EXCEPT !.error = Some(m)], "fetchNearbyPlaces.catch")

\* fetchNearbyPlaces: set({ nearbyPlaces: [] }) of the catch
FetchClearOnError ==
  \E t \in Parked("fetchNearbyPlaces.catch") :
    SetState(t, t, [store EXCEPT !.nearbyPlaces = <<>>], "fetchNearbyPlaces.finally")

\* fetchNearbyPlaces: set({ isLoading: false }) of the finally
FetchFinally ==
  \E t \in Parked("fetchNearbyPlaces.finally") :
    SetState(t, t,
             [store EXCEPT !.isLoading = FALSE], "idle")

NextSets ==
  \/ SetCurrentLocation
  \/ SetUseDefaultLocationFlag
  \/ SetUseDefaultLocationPin
  \/ FetchAllSetLoading
  \/ FetchAllClearPlaces
  \/ CategoryRequestSettles
  \/ FetchVerify
  \/ FetchSetLoading
  \/ FetchClearPlaces
  \/ FetchSetPlaces
  \/ FetchSetError
  \/ FetchClearOnError
  \/ FetchFinally

SpecSets == Init /\ [][NextSets]_vars

\* --------------------------------------------- the store and its watch
\* The actions of the store that start or stop the watch, called in any
\* order, with the callbacks of the watch.

\* An action of the store is called and runs to its first await (or its end).
Call(res) ==
  /\ presses' = presses + 1
  /\ Spawn(res)

\* startLocationWatching()
CallStartLocationWatching ==
  /\ presses < MaxPresses
  /\ Call([w |-> StartLocationWatching(World), t |-> Idle])

\* stopLocationWatching(), as the cleanup of the screen's effect calls it on
\* unmount
CallStopLocationWatching ==
  /\ presses < MaxPresses
  /\ Call([w |-> StopLocationWatching(World), t |-> Idle])

\* toggleUseDefaultLocation()
CallToggle ==
  /\ presses < MaxPresses
  /\ Call(CallToggleUseDefaultLocation(World, Idle))

\* reset(), counted as a call
CallResetWatch ==
  /\ presses < MaxPresses
  /\ Call([w |-> Reset(World), t |-> Idle])

\* fetchNearbyPlaces(type)
FetchNearbyPlaces(type) ==
  /\ presses < MaxPresses
  /\ Call(CallFetchNearbyPlaces(World, Idle, type))

\* fetchAllNearbyPlaces()
FetchAllNearbyPlaces ==
  /\ presses < MaxPresses
  /\ Call(CallFetchAllNearbyPlaces(World, Idle))

NextWatch ==
  \/ SetCurrentLocation
  \/ \E type \in PlaceTypeSet : FetchNearbyPlaces(type)
  \/ FetchAllNearbyPlaces
  \/ CallStartLocationWatching
  \/ CallStopLocationWatching
  \/ CallToggle
  \/ CallResetWatch
  \/ GpsAvailabilitySettles
  \/ ToggleLocationSettles
  \/ NearbyPlacesRequestSettles
  \/ CategoryRequestSettles
  \/ PositionChanges
  \/ WatchError

SpecWatch == Init /\ [][NextWatch]_vars

\* ------------------------------------- the store's actions that show loading
\* The actions that set isLoading, called on the store in any order, where
\* every platform or API call that is awaited settles in the end.

\* requestLocationPermission()
RequestLocationPermission ==
  /\ presses < MaxPresses
  /\ Call(CallRequestLocationPermission(World, Idle))

\* getCurrentLocation()
GetCurrentLocation ==
  /\ presses < MaxPresses
  /\ Call(CallGetCurrentLocation(World, Idle))

\* Calls of store actions in a run where every awaited call settles
MaxCalls == 2

\* Some awaited platform or API call settles.
Settles ==
  \/ PermissionRequestSettles
  \/ CurrentLocationSettles
  \/ NearbyPlacesRequestSettles
  \/ CategoryRequestSettles
  \/ GpsAvailabilitySettles
  \/ ToggleLocationSettles

NextLoading ==
  \/ presses < MaxCalls /\ SetCurrentLocation
  \/ presses < MaxCalls /\ RequestLocationPermission
  \/ presses < MaxCalls /\ GetCurrentLocation
  \/ presses < MaxCalls /\ \E type \in PlaceTypeSet : FetchNearbyPlaces(type)
  \/ presses < MaxCalls /\ FetchAllNearbyPlaces
  \/ presses < MaxCalls /\ CallToggle
  \/ Settles

\* As long as a call is awaited, one of the awaited calls settles.
SettlesFairly == WF_vars(Settles)

SpecLoading == Init /\ [][NextLoading]_vars /\ SettlesFairly


\* ------------------------------------- makeRequest: the steps of one call
\* What response.json() resolves to: an object, or null for the body "null".
ResponseData == { Text("data"), Text("null") }

\* checkHealth: the response, or its own error when makeRequest rejected.
CheckHealthOutcome(a) ==
  IF a.phase = "resolved"
  THEN [settled |-> "resolved", value |-> The(a.outcome)]
  ELSE [settled |-> "rejected", value |-> Text("API server is not responding")]

\* getNearbyPlaces: the mapped places; reading response.places of a null body
\* throws, and every error is thrown on.
NearbyPlacesOutcome(a) ==
  IF a.phase = "resolved"
  THEN IF The(a.outcome) = Text("null")
       THEN [settled |-> "rejected", value |-> Text("TypeError")]
       ELSE [settled |-> "resolved", value |-> Text("places")]
  ELSE [settled |-> "rejected", value |-> The(a.outcome)]

\* getPlaceDetails: the mapped place, null for a falsy body, and every error
\* of makeRequest thrown on.
GetPlaceDetailsOutcome(a) ==
  IF a.phase = "resolved"
  THEN IF The(a.outcome) = Text("null")
       THEN [settled |-> "resolved", value |-> Text("null")]
       ELSE [settled |-> "resolved", value |-> Text("place")]
  ELSE [settled |-> "rejected", value |-> The(a.outcome)]

CallerOutcome(a) ==
  CASE a.endpoint = "/api/health" -> CheckHealthOutcome(a)
    [] a.endpoint = "/api/places/nearby" -> NearbyPlacesOutcome(a)
    [] a.endpoint = "/api/places/:id" -> GetPlaceDetailsOutcome(a)

ApiStep(a) ==
  /\ api' = a
  /\ UNCHANGED << appVars, xf >>

\* A caller (checkHealth, getNearbyPlaces, getPlaceDetails) calls makeRequest.
ApiCall ==
  /\ api.phase = "idle"
  /\ \E e \in Endpoints : ApiStep(MakeRequest([api EXCEPT !.endpoint = e]))

\* fetch resolves with a response.
FetchResponds ==
  /\ api.phase = "fetching" /\ ~api.aborted
  /\ \E status \in Statuses, h \in RetryAfterHeaders, ms \in Latencies :
       /\ status # 429 => h = Null
       /\ ApiStep(OnResponse([api EXCEPT !.now = @ + ms], status, h))

\* fetch rejects: no connection, DNS failure, ...
FetchFails ==
  /\ api.phase = "fetching" /\ ~api.aborted
  /\ \E thrown \in FetchFailures, ms \in Latencies :
       ApiStep(Catch([api EXCEPT !.now = @ + ms], "fetch", thrown))

\* The timeout timer of the attempt fires: controller.abort().
TimeoutFires ==
  /\ api.phase = "fetching" /\ ~api.aborted
  /\ \E t \in api.timers :
       /\ t.attempt = api.attempt
       /\ ApiStep([api EXCEPT !.now = t.deadline, !.aborted = TRUE,
                              !.timers = @ \ {t}])

\* The aborted fetch rejects with an AbortError.
AbortedFetchRejects ==
  /\ api.phase = "fetching" /\ api.aborted
  /\ ApiStep(Catch(api, "timeout", AbortError))

\* response.json() settles.
BodyParsed ==
  /\ api.phase = "parsing"
  /\ \E ms \in Latencies :
       LET a == [api EXCEPT !.now = @ + ms]
       IN \/ \E data \in ResponseData :
               ApiStep([a EXCEPT !.phase = "resolved", !.outcome = Some(data)])
          \/ ApiStep(Catch(a, "body", BodyFailure))

\* The delay after a 429 has elapsed: the request is made again.
DelayElapses ==
  /\ api.phase = "waiting"
  /\ api.attempt < MaxAttempts
  /\ LET w == api.waits[Len(api.waits)]
     IN ApiStep(RetryRequest([api EXCEPT !.now = w.at + TimerMs(w.delay)]))

\* The caller's await of makeRequest settles: checkHealth, getNearbyPlaces or
\* getPlaceDetails runs to its end.
CallerSettles ==
  /\ api.phase \in { "resolved", "rejected" }
  /\ api.caller = Null
  /\ ApiStep([api EXCEPT !.caller = Some(CallerOutcome(api))])

NextApi ==
  \/ ApiCall
  \/ FetchResponds
  \/ FetchFails
  \/ TimeoutFires
  \/ AbortedFetchRejects
  \/ BodyParsed
  \/ DelayElapses
  \/ CallerSettles

SpecApi == Init /\ [][NextApi]_vars

\* ------------------------------ getNearbyPlaces: the mapping of one body
InitPlaces ==
  /\ store = initialState
  /\ service = [locationWatcherId |-> Null, os |-> "ios"]
  /\ watches = {}
  /\ nextWatchId = 0
  /\ ui = [ hasMadeChoice |-> FALSE,
            hasAttemptedLocationAccess |-> FALSE,
            wasLocationPreviouslyGranted |-> FALSE, mounted |-> FALSE ]
  /\ tasks = EmptyBag
  /\ presses = 0
  /\ ev = NoEvent
  /\ api = ApiIdle
  /\ \E type \in PlaceTypeSet, failed \in BOOLEAN, body \in PlacesBodies :
       /\ failed => body = Null
       /\ xf = [ phase |-> "requested", type |-> type, failed |-> failed,
                 body |-> body, result |-> << >> ]

\* nearbyPlacesApiService.getNearbyPlaces returns.
ApiReturnsPlaces ==
  /\ xf.phase = "requested"
  /\ LET out == GetNearbyPlacesOutcome(xf.failed, xf.body)
     IN /\ out.phase = "returned"
        /\ xf' = [xf EXCEPT !.phase = "returned", !.result = out.result]
  /\ UNCHANGED << appVars, api >>

\* nearbyPlacesApiService.getNearbyPlaces rejects with what makeRequest threw.
ApiRejectsPlaces ==
  /\ xf.phase = "requested"
  /\ LET out == GetNearbyPlacesOutcome(xf.failed, xf.body)
     IN /\ out.phase = "rejected"
        /\ xf' = [xf EXCEPT !.phase = "rejected"]
  /\ UNCHANGED << appVars, api >>

\* locationService.getNearbyPlaces returns what the API client returned, sorted.
ServiceReturnsPlaces ==
  /\ xf.phase = "returned"
  /\ xf' = [xf EXCEPT !.phase = "sorted", !.result = SortByDistance(xf.result)]
  /\ UNCHANGED << appVars, api >>

NextPlaces ==
  \/ ApiReturnsPlaces
  \/ ApiRejectsPlaces
  \/ ServiceReturnsPlaces

SpecPlaces == InitPlaces /\ [][NextPlaces]_vars

\* ------------------------------------------------------------------ claims
InDefaultMode ==
  /\ store.useDefaultLocation
  /\ store.currentLocation = Some(DEFAULT_LOCATION)
  /\ ~store.isLocationWatching
  /\ service.locationWatcherId = Null

\* C1: in every reachable state with useDefaultLocation true and a non-null
\* currentLocation, currentLocation equals the fixed default location.
C1_DefaultModePinsLocation ==
  (store.useDefaultLocation /\ store.currentLocation # Null)
     => store.currentLocation = Some(DEFAULT_LOCATION)

\* C2: when a toggle that was called in default mode and failed to switch to
\* live (GPS unavailable, or the position fetch rejected) completes, the store
\* is in default mode with no watch flag and no watch handle.
C2_FailedSwitchEndsInDefaultMode ==
  ev.toggle = Some("reverted") => InDefaultMode

\* C3: when a toggle that reverted to default mode completes, the store's
\* error still holds the explanatory "Reverted to default location" message.
C3_RevertKeepsExplanatoryError ==
  ev.toggle = Some("reverted") =>
    /\ store.error # Null
    /\ \E c \in {"GPS is not available on this device"}
                  \cup { LocationErrorMessage(n) : n \in PositionErrorCodes } :
         store.error = Some(RevertedMessage(c))

\* C4 as stated: a failed fetchNearbyPlaces / retryFetchPlaces that started
\* with a non-empty nearbyPlaces ends with error set and nearbyPlaces equal to
\* the list it held before.
C4_FailedFetchKeepsPlaces ==
  \A f \in ev.failedFetch :
    f.before # <<>> => (f.error # Null /\ f.nearbyPlaces = f.before)

\* C4 amended: a failed fetchNearbyPlaces / retryFetchPlaces ends with error
\* set to the rejection's message and nearbyPlaces empty, whatever the list
\* held before.
C4_FailedFetchClearsPlaces ==
  \A f \in ev.failedFetch :
    /\ f.error \in { Some(m) : m \in ApiErrorMessages }
    /\ f.nearbyPlaces = <<>>

C4_Witness ==
  \E f \in ev.failedFetch : f.before # <<>>

\* C5: a toggle back to default that was called after a successful switch
\* from default to live had completed ends with currentLocation equal to the
\* default location, useDefaultLocation true and no watch active.
C5_RoundTripRestoresDefault ==
  ev.toggle = Some("default after live") => (InDefaultMode /\ watches = {})

\* C6: at most one platform watch is active, and it is the one the service
\* holds the handle of, so a position change reaches onUpdate at most once.
C6_AtMostOneWatch ==
  /\ Cardinality(watches) <= 1
  /\ watches = service.locationWatcherId

C6_Witness ==
  /\ ev.replacedWatch # Null
  /\ Cardinality(watches) = 1
  /\ ev.replacedWatch # service.locationWatcherId

C8_RetriesHaveNoCeiling ==
  /\ \A i \in 1..(api.attempt - 1) : api.results[i] = "429"
  /\ api.outcome # Null =>
       /\ Len(api.results) = api.attempt
       /\ api.results[api.attempt] # "429"
  /\ (\A i \in 1..Len(api.results) : api.results[i] = "429") =>
       /\ api.outcome = Null
       /\ api.phase \in { "idle", "fetching", "waiting" }

C8_Witness ==
  /\ api.attempt > RETRY_ATTEMPTS
  /\ api.retryAttempts = RETRY_ATTEMPTS
  /\ api.phase = "fetching"
  /\ \A i \in 1..Len(api.results) : api.results[i] = "429"

\* The timeout timer armed for the attempt in flight, and no other.
OneTimerPerAttempt ==
  IF api.phase = "fetching" /\ ~api.aborted
  THEN api.timers = { [attempt |-> api.attempt,
                       deadline |-> api.calls[api.attempt].at + TIMEOUT] }
  ELSE api.timers = {}

\* C9 as stated: a rejected call carries the HTTP status after a non-2xx,
\* non-429 response, 'Request timeout' after the timer aborted the fetch, and
\* 'Network request failed' after any other failure of the fetch.
C9_ThreeFailureOutcomes ==
  /\ OneTimerPerAttempt
  /\ api.phase = "rejected" =>
       LET kind == api.failure
           message == The(api.outcome)
       IN /\ kind = "http" =>
               message.text = "HTTP" /\ ~ResponseOk(message.status) /\ message.status # 429
          /\ kind = "timeout" => message = Text("Request timeout")
          /\ kind = "fetch" => message = Text("Network request failed")

\* C9 amended: each attempt has its own timer; a rejected call carries the HTTP
\* status after a non-2xx, non-429 response and 'Request timeout' after the
\* timer aborted the fetch at its deadline; any other failure that is an Error
\* (of fetch, of reading the body) is rethrown with its own message, and only
\* a thrown value that is not an Error becomes 'Network request failed'.
C9_FailureOutcomes ==
  /\ OneTimerPerAttempt
  /\ api.phase = "rejected" =>
       LET kind == api.failure
           message == The(api.outcome)
           thrown == The(api.thrown)
       IN /\ kind = "http" =>
               message.text = "HTTP" /\ ~ResponseOk(message.status) /\ message.status # 429
          /\ kind = "timeout" =>
               /\ message = Text("Request timeout")
               /\ api.now = api.calls[api.attempt].at + TIMEOUT
          /\ (kind \in { "fetch", "body" } /\ thrown.isError) => message = thrown.message
          /\ (kind \in { "fetch", "body" } /\ ~thrown.isError) =>
               message = Text("Network request failed")

C9_Witness ==
  /\ api.phase = "rejected"
  /\ api.failure = "fetch"
  /\ The(api.thrown).isError
  /\ The(api.outcome) # Text("Network request failed")

\* C10: getNearbyPlaces returns one place per place of the body, in the body's
\* order, each with distance = the body's distance x 1000 and types = the
\* one-element list of the body's type; a body without places gives no place.
C10_PlacesMappedInServerOrder ==
  xf.phase = "returned" =>
    IF xf.body = Null THEN xf.result = << >>
    ELSE LET places == The(xf.body)
         IN /\ Len(xf.result) = Len(places)
            /\ \A i \in 1..Len(places) :
                 /\ xf.result[i].id = places[i].id
                 /\ xf.result[i].distance = places[i].distance * 1000
                 /\ xf.result[i].types = << places[i].type >>

C10_Witness ==
  /\ xf.phase = "returned"
  /\ Len(xf.result) = 2
  /\ xf.result[1].distance = 2000
  /\ xf.result[2].distance = 1000

\* C11: when makeRequest resolved with a body whose places array is empty or
\* whose places field is missing, getNearbyPlaces returns the empty list and
\* does not reject.
C11_EmptyOrMissingPlacesGiveEmptyList ==
  (/\ xf.phase \in { "returned", "rejected" }
   /\ ~xf.failed
   /\ xf.body \in { Null, Some(<< >>) })
     => (xf.phase = "returned" /\ xf.result = << >>)

C11_Witness ==
  /\ xf.phase = "returned"
  /\ ~xf.failed
  /\ xf.body = Null
  /\ xf.result = << >>

\* C12: when the single-resource endpoint answers 404 for the id,
\* getPlaceDetails resolves to null; it does not reject.
C12_AbsentPlaceGivesNull ==
  (/\ api.endpoint = "/api/places/:id"
   /\ api.caller # Null
   /\ api.failure = "http"
   /\ The(api.outcome) = [text |-> "HTTP", status |-> 404])
     => The(api.caller) = [settled |-> "resolved", value |-> Text("null")]

\* C13: locationService.requestLocationPermission never rejects, and resolves
\* to denied with canAskAgain = true when the platform call throws; so when the
\* store's requestLocationPermission ends, permissionStatus is non-null and
\* isLoading is false.
C13_PermissionRequestNeverRejects ==
  /\ \A os \in Platforms : \A r \in PlatformRequestResults(os) :
       /\ ServiceRequestLocationPermission(os, r).settled = "resolved"
       /\ r = "throws" =>
            ServiceRequestLocationPermission(os, r).permission = Permission("denied", TRUE)
  /\ \A e \in ev.permissionRequest :
       /\ store.permissionStatus # Null
       /\ ~store.isLoading
       /\ e.threw => store.permissionStatus = Some(Permission("denied", TRUE))

C13_Witness ==
  /\ ev.permissionRequest = Some([threw |-> TRUE])
  /\ store.permissionStatus = Some(Permission("denied", TRUE))

\* C14: every permission status the location service produces, and the
\* store's permissionStatus in every reachable state, has canAskAgain = false
\* when its status is never_ask_again or restricted.
C14_NoAskAgainWhenBlocked ==
  /\ \A p \in RequestResults \cup CheckResults \cup store.permissionStatus :
       p.status \in { "never_ask_again", "restricted" } => ~p.canAskAgain

C14_Witness ==
  /\ store.permissionStatus = Some(Permission("never_ask_again", FALSE))
  /\ service.os = "android"

Ids(s) == { s[i].id : i \in 1..Len(s) }

Elems(s) == { s[i] : i \in 1..Len(s) }

\* C15: when the fetch started by 'Use Default Location' on a fresh launch
\* completes, the store is in default mode at the default location with no
\* error, and nearbyPlaces is the merge of the results of all categories:
\* every returned place once, and nothing else.
C15_DefaultChoiceLoadsAllCategories ==
  (presses = 1 /\ ev.fetchAll # Null) =>
    /\ store.useDefaultLocation
    /\ store.currentLocation = Some(DEFAULT_LOCATION)
    /\ store.error = Null
    /\ Ids(store.nearbyPlaces) = Ids(The(ev.fetchAll))
    /\ Elems(store.nearbyPlaces) \subseteq Elems(The(ev.fetchAll))
    /\ Cardinality(Ids(store.nearbyPlaces)) = Len(store.nearbyPlaces)

C15_Witness ==
  /\ presses = 1
  /\ ev.fetchAll # Null
  /\ store.permissionStatus = Some(Permission("denied", TRUE))
  /\ Len(The(ev.fetchAll)) > Len(store.nearbyPlaces)
  /\ Len(store.nearbyPlaces) = 3

PlacesRequestPcs == { "fetchNearbyPlaces", "fetchAllNearbyPlaces" }

\* No step from the current state starts a request for places.
NoNewPlacesRequest ==
  \A t \in BagToSet(tasks') :
    t.pc \in PlacesRequestPcs => CopiesIn(t, tasks') <= CopiesIn(t, tasks)

\* C16: when the position fetch of the store's getCurrentLocation fails with
\* code 3, the step that handles the failure sets error to 'Location request
\* timed out' and isLoading to false, changes nothing else of the store
\* (currentLocation, useDefaultLocation and the place lists stay as they
\* were), and starts no request for places.
C16_TimeoutOnlySetsError ==
  [][ ev'.locationFailed = Some(3) =>
        /\ store' = [store EXCEPT !.error = Some("Location request timed out"),
                                  !.isLoading = FALSE]
        /\ NoNewPlacesRequest ]_vars

C16_Witness ==
  /\ ev.locationFailed = Some(3)
  /\ store.error = Some("Location request timed out")
  /\ ~store.isLoading
  /\ store.currentLocation # Null
  /\ Len(store.nearbyPlaces) > 0

\* C17: on app start the mount effect requests the permission if and only if
\* its fresh check, made after clearing the stored status, did not report
\* granted.
C17_RequestsOnlyWhenNotGranted ==
  ev.mountCheck # Null =>
    (The(ev.mountCheck).requests <=> ~The(ev.mountCheck).granted)

PermissionPcs == { "requestLocationPermission", "checkCurrentPermissionStatus" }

\* The step starts or ends a permission action of the store
\* (clearPermissionStatus runs in the step that ends the mount effect's
\* first check).
PermissionStep ==
  \E t \in BagToSet(tasks) \cup BagToSet(tasks') :
    t.pc \in PermissionPcs /\ CopiesIn(t, tasks) # CopiesIn(t, tasks')

\* C18: a request for places is started only when a location mode is chosen
\* (currentLocation is set or useDefaultLocation is true), and a step of a
\* permission action starts no request for places and leaves currentLocation
\* and useDefaultLocation as they are.
C18_NoPlacesBeforeModeChosen ==
  [][ /\ ~NoNewPlacesRequest =>
           (store'.currentLocation # Null \/ store'.useDefaultLocation)
      /\ PermissionStep =>
           /\ NoNewPlacesRequest
           /\ store'.currentLocation = store.currentLocation
           /\ store'.useDefaultLocation = store.useDefaultLocation ]_vars

C18_Witness ==
  /\ ev.permissionRequest # Null
  /\ store.permissionStatus # Null
  /\ store.currentLocation = Null
  /\ ~store.useDefaultLocation
  /\ \A t \in BagToSet(tasks) : t.pc \notin PlacesRequestPcs

\* The permission screen shows a card with an enabled button that sets a
\* location mode ('Use My Current Location' or 'Use Default Location').
OffersLocationMode ==
  /\ ShowsPermissionScreen(World)
  /\ PermissionCard(World) \in { "choice", "request", "welcome" }
  /\ ~store.isLoading

\* C19: no dead end: whenever the permission status is resolved, no mode is
\* chosen and no action is in flight, the screen offers an enabled action
\* that leads to a location mode.
C19_NoDeadEnd ==
  ( /\ ui.mounted
    /\ store.permissionStatus # Null
    /\ store.currentLocation = Null
    /\ ~store.useDefaultLocation
    /\ tasks = EmptyBag ) => OffersLocationMode

C21_NoAllowButtonWhenGrantedAtLaunch ==
  ShowsAllowLocationButton(World) =>
    /\ store.useDefaultLocation
    /\ ~ui.hasAttemptedLocationAccess
    /\ ~ev.launchGranted
    /\ \A t \in BagToSet(tasks) : ~t.launch

\* C22: reset() stops the watch and returns every field of the store to its
\* initial value, and the store stays at the initial values until a new
\* store action is invoked, also when an action started before the reset
\* completes after it.
C22_ResetStateStays ==
  ev.sinceReset =>
    /\ store = initialState
    /\ watches = {}
    /\ service.locationWatcherId = Null

\* C23: 'Use My Current Location' from the choice card. If the position fetch
\* succeeds the handler ends with useDefaultLocation false, currentLocation
\* the position obtained, isLocationWatching true and exactly one watch, the
\* one the service holds. If it fails the handler ends with error set, and
\* neither its start nor its end changes currentLocation, useDefaultLocation
\* or the watch, or starts a request for places.
C23_UseLiveLocationChoice ==
  [][ /\ ev'.liveChoice = Some(LiveChoice("called", Null)) =>
           /\ store' = [store EXCEPT !.isLoading = TRUE, !.error = Null]
           /\ watches' = watches
           /\ service' = service
           /\ NoNewPlacesRequest
      /\ ev'.liveChoice = Some(LiveChoice("failed", Null)) =>
           /\ store'.error # Null
           /\ store' = [store EXCEPT !.error = store'.error, !.isLoading = FALSE]
           /\ watches' = watches
           /\ service' = service
           /\ NoNewPlacesRequest
      /\ (ev'.liveChoice # Null /\ The(ev'.liveChoice).phase = "done") =>
           /\ ~store'.useDefaultLocation
           /\ store'.currentLocation = The(ev'.liveChoice).got
           /\ store'.currentLocation # Null
           /\ store'.isLocationWatching
           /\ Cardinality(watches') = 1
           /\ service'.locationWatcherId = watches' ]_vars

\* The all-categories fetch of a toggleUseDefaultLocation that switches to the
\* default location.
SwitchToDefaultFetch(t) ==
  /\ t.pc = "fetchAllNearbyPlaces"
  /\ t.mark \in { "default", "default after live" }

\* C24: a toggleUseDefaultLocation called in live mode has stopped the watch
\* and pinned the location when it issues its first places request
\* (isLocationWatching false, no watch handle, no platform watch,
\* useDefaultLocation true, currentLocation the default location), and every
\* request of its all-categories fetch is made at the default location.
C24_SwitchToDefaultStopsWatchFirst ==
  /\ [](\A t \in BagToSet(tasks) :
          SwitchToDefaultFetch(t) => t.loc = Some(DEFAULT_LOCATION))
  /\ [][ \A t \in BagToSet(tasks') :
           (SwitchToDefaultFetch(t) /\ CopiesIn(t, tasks') > CopiesIn(t, tasks)
              /\ t.idx = 1) =>
             /\ ~store.useDefaultLocation
             /\ ~store'.isLocationWatching
             /\ service'.locationWatcherId = Null
             /\ watches' = {}
             /\ store'.useDefaultLocation
             /\ store'.currentLocation = Some(DEFAULT_LOCATION) ]_vars

C24_Witness ==
  /\ \E t \in BagToSet(tasks) :
       /\ SwitchToDefaultFetch(t)
       /\ t.mark = "default after live"
       /\ t.idx = Len(SUPPORTED_PLACE_TYPES)
       /\ t.loc = Some(DEFAULT_LOCATION)
  /\ watches = {}
  /\ nextWatchId > 0
  /\ ~store.isLocationWatching

\* C25: the places request of a successful switch to live asks for the
\* category the user last selected in the category tabs.
C25_LiveSwitchFetchesSelectedTab ==
  (ev.liveFetch # Null /\ The(ev.liveFetch).selected \in PlaceTypeSet) =>
    The(ev.liveFetch).type = The(ev.liveFetch).selected

\* The step resumes a places fetch and runs no code of its caller: the fetch
\* is the whole handler, or it goes on to its next category.
FetchOnlyStep ==
  \E t \in BagToSet(tasks) :
    /\ t.pc \in PlacesRequestPcs
    /\ CopiesIn(t, tasks') < CopiesIn(t, tasks)
    /\ \/ t.ret = <<>>
       \/ t.pc = "fetchAllNearbyPlaces" /\ t.idx < Len(SUPPORTED_PLACE_TYPES)

CategoryStep == \E type \in PlaceTypeSet \cup {"all"} : SelectCategory(type)

\* C26: selecting a category, and every step of fetchNearbyPlaces and
\* fetchAllNearbyPlaces, leaves useDefaultLocation, isLocationWatching,
\* permissionStatus and the watch as they are; currentLocation changes only
\* when a fetch starts in default mode away from the default location, and
\* then to the default location.
C26_CategoryKeepsLocationAndMode ==
  [][ (CategoryStep \/ FetchOnlyStep) =>
        /\ store'.useDefaultLocation = store.useDefaultLocation
        /\ store'.isLocationWatching = store.isLocationWatching
        /\ store'.permissionStatus = store.permissionStatus
        /\ watches' = watches
        /\ service' = service
        /\ store'.currentLocation =
             IF /\ CategoryStep
                /\ store.useDefaultLocation
                /\ store.currentLocation # Null
                /\ ~IsUsingDefaultLocation(The(store.currentLocation))
             THEN Some(DEFAULT_LOCATION)
             ELSE store.currentLocation ]_vars

C26_Witness ==
  /\ \E t \in BagToSet(tasks) :
       t.pc = "fetchNearbyPlaces" /\ t.ret = <<>> /\ t.type = "cafe"
  /\ ~store.useDefaultLocation
  /\ store.isLocationWatching
  /\ store.currentLocation # Null
  /\ store.currentLocation # Some(DEFAULT_LOCATION)

\* A task of the given kind is parked in the next state that was not there.
StartsFetch(pc, type) ==
  \E t \in BagToSet(tasks') :
    /\ t.pc = pc /\ t.type = type /\ t.ret = <<>>
    /\ t.idx = (IF pc = "fetchAllNearbyPlaces" THEN 1 ELSE 0)
    /\ CopiesIn(t, tasks') = CopiesIn(t, tasks) + 1
    /\ tasks' = tasks (+) SetToBag({t})
    /\ store'.nearbyPlaces = <<>>
    /\ store'.isLoading

\* C27: selecting 'all' in default mode starts a fresh all-categories fetch;
\* selecting 'all' in live mode starts one only if the place list is empty
\* and otherwise issues no request; selecting a category starts a fresh fetch
\* of exactly that category, in either mode.
C27_CategoryFetchRule ==
  [][ \A type \in PlaceTypeSet \cup {"all"} :
        SelectCategory(type) =>
          IF type # "all" THEN StartsFetch("fetchNearbyPlaces", type)
          ELSE IF store.useDefaultLocation \/ Len(store.nearbyPlaces) = 0
               THEN StartsFetch("fetchAllNearbyPlaces", "none")
               ELSE tasks' = tasks /\ store' = store ]_vars

C27_Witness ==
  /\ \E t \in BagToSet(tasks) :
       t.pc = "fetchNearbyPlaces" /\ t.ret = <<>> /\ t.type = "cafe"
  /\ ev.selectedCategory = "cafe"
  /\ store.useDefaultLocation
  /\ Len(store.nearbyPlaces) = 0
  /\ store.isLoading

\* handleRequestLocationAccess at its request or at its check.
RecoveryAwaitingPermission(t) ==
  \/ /\ t.pc = "requestLocationPermission"
     /\ t.ret = << "handleRequestLocationAccess.requested" >>
  \/ /\ t.pc = "checkCurrentPermissionStatus"
     /\ t.ret = << "handleRequestLocationAccess.checked" >>

\* The step starts handleRequestLocationAccess or resumes it at its request
\* or its check.
RecoveryStep ==
  \E t \in BagToSet(tasks) \cup BagToSet(tasks') :
    RecoveryAwaitingPermission(t) /\ CopiesIn(t, tasks) # CopiesIn(t, tasks')

\* The check of handleRequestLocationAccess settles and the permission is
\* still not granted.
RecoveryDenied ==
  /\ \E t \in BagToSet(tasks) :
       /\ t.pc = "checkCurrentPermissionStatus"
       /\ t.ret = << "handleRequestLocationAccess.checked" >>
       /\ CopiesIn(t, tasks') < CopiesIn(t, tasks)
  /\ ~(\E p \in store'.permissionStatus : p.status = "granted")

\* C28: 'Allow Location' with the permission still not granted leaves
\* useDefaultLocation, currentLocation, isLocationWatching and the watch as
\* they are and makes no position fetch (the handler ends at its check); and
\* from the moment the handler has started, the 'Allow Location' button is
\* never offered again.
C28_DeniedRecoveryKeepsMode ==
  /\ [](ui.hasAttemptedLocationAccess => ~ShowsAllowLocationButton(World))
  /\ [][ /\ RecoveryStep =>
              /\ store'.useDefaultLocation = store.useDefaultLocation
              /\ store'.currentLocation = store.currentLocation
              /\ store'.isLocationWatching = store.isLocationWatching
              /\ watches' = watches
              /\ service' = service
              /\ ui'.hasAttemptedLocationAccess
         /\ RecoveryDenied =>
              /\ BagCardinality(tasks') = BagCardinality(tasks) - 1
              /\ \A t \in BagToSet(tasks') :
                   CopiesIn(t, tasks') <= CopiesIn(t, tasks)
              /\ ~store'.isLoading
         /\ ui.hasAttemptedLocationAccess => ui'.hasAttemptedLocationAccess ]_vars

C28_Witness ==
  /\ ui.hasAttemptedLocationAccess
  /\ tasks = EmptyBag
  /\ store.useDefaultLocation
  /\ store.permissionStatus = Some(Permission("denied", TRUE))
  /\ ev.permissionRequest = Null
  /\ presses = 2

\* handleRequestLocationAccess after the permission was granted.
RecoveryAfterGrant(t) ==
  /\ Len(t.ret) > 0
  /\ t.ret[Len(t.ret)] = "handleRequestLocationAccess.finally"

\* C29: in the recovery flow, every places request issued after the grant
\* (the switch to live not having rolled back) is made at the live position,
\* none at the default location.
C29_RecoveryFetchesAtLivePosition ==
  \A t \in BagToSet(tasks) :
    (RecoveryAfterGrant(t) /\ t.pc \in PlacesRequestPcs /\ t.mark # "reverted")
      => t.loc # Some(DEFAULT_LOCATION)

\* list is acc without the later entries of an id already seen, by ascending
\* distance.
MergedFrom(acc, list) ==
  /\ Ids(list) = Ids(acc)
  /\ Cardinality(Ids(list)) = Len(list)
  /\ \A i \in 1..Len(list) :
       \E j \in 1..Len(acc) :
         /\ acc[j] = list[i]
         /\ \A k \in 1..(j - 1) : acc[k].id # list[i].id
  /\ \A i, j \in 1..Len(list) : i < j => list[i].distance <= list[j].distance

\* What the request for typesToFetch[t.idx] can leave in allPlaces: the list
\* as it was (failure) or extended by that category's places.
AfterCategory(t) ==
  { t.acc } \cup { t.acc \o ServiceGetNearbyPlaces(body) :
                     body \in ServerResponses(SUPPORTED_PLACE_TYPES[t.idx]) }

\* C30: fetchAllNearbyPlaces asks the supported categories one after the
\* other in list order, one request each, at the location it started with,
\* and when the last one has settled nearbyPlaces and allPlaces are both the
\* merged result: every returned place by id, no id twice (first occurrence
\* in fetch order kept), by ascending distance.
C30_FetchAllMergesEveryCategory ==
  /\ [](ev.fetchAll # Null =>
          /\ store.allPlaces = store.nearbyPlaces
          /\ MergedFrom(The(ev.fetchAll), store.nearbyPlaces)
          /\ ~store.isLoading)
  /\ [](\A t \in Parked("fetchAllNearbyPlaces") :
          t.idx \in 1..Len(SUPPORTED_PLACE_TYPES))
  /\ [][ /\ \A t \in Parked("fetchAllNearbyPlaces") :
              CopiesIn(t, tasks') < CopiesIn(t, tasks) =>
                IF t.idx < Len(SUPPORTED_PLACE_TYPES)
                THEN /\ ev'.fetchAll = Null
                     /\ \E u \in BagToSet(tasks') :
                          /\ CopiesIn(u, tasks') > CopiesIn(u, tasks)
                          /\ u = [t EXCEPT !.idx = t.idx + 1, !.acc = u.acc]
                          /\ u.acc \in AfterCategory(t)
                ELSE /\ ev'.fetchAll # Null
                     /\ The(ev'.fetchAll) \in AfterCategory(t)
         /\ \A u \in BagToSet(tasks') :
              (u.pc = "fetchAllNearbyPlaces"
                 /\ CopiesIn(u, tasks') > CopiesIn(u, tasks)) =>
                \/ u.idx = 1 /\ u.acc = <<>>
                \/ \E t \in Parked("fetchAllNearbyPlaces") :
                     /\ CopiesIn(t, tasks') < CopiesIn(t, tasks)
                     /\ t.idx = u.idx - 1 ]_vars

C30_Witness ==
  /\ ev.fetchAll # Null
  /\ Len(The(ev.fetchAll)) = 4
  /\ Len(store.allPlaces) = 3
  /\ store.allPlaces[1].id = "r2"
  /\ store.allPlaces[1].types = << "restaurant" >>
  /\ store.allPlaces[2].id = "c1"
  /\ store.allPlaces[3].id = "r1"

\* The fetchAllNearbyPlaces tasks the step resumed.
ResumedFetchAll == { t \in Parked("fetchAllNearbyPlaces") :
                      CopiesIn(t, tasks') < CopiesIn(t, tasks) }

\* C31: a rejected category request of fetchAllNearbyPlaces does not abort
\* the fetch: the places collected so far are kept, error and isLoading are
\* left alone and the next category is requested, or, after the last
\* category, the fetch completes with the merged list of what was collected
\* and isLoading false; the collected places come only from categories
\* already settled, and the fetch completes only at the last category.
C31_CategoryFailureDoesNotAbort ==
  /\ [](\A t \in Parked("fetchAllNearbyPlaces") :
          \A i \in 1..Len(t.acc) :
            \E k \in 1..(t.idx - 1) : t.acc[i].types = << SUPPORTED_PLACE_TYPES[k] >>)
  /\ [][ /\ ev'.categoryFailed # Null =>
              \E t \in ResumedFetchAll :
                /\ SUPPORTED_PLACE_TYPES[t.idx] = The(ev'.categoryFailed)
                /\ store'.error = store.error
                /\ IF t.idx < Len(SUPPORTED_PLACE_TYPES)
                   THEN /\ CopiesIn([t EXCEPT !.idx = t.idx + 1], tasks')
                             > CopiesIn([t EXCEPT !.idx = t.idx + 1], tasks)
                        /\ store' = store
                   ELSE /\ ev'.fetchAll = Some(t.acc)
                        /\ store'.nearbyPlaces = SortByDistance(UniquePlaces(t.acc))
                        /\ store'.allPlaces = store'.nearbyPlaces
                        /\ ~store'.isLoading
         /\ ev'.fetchAll # Null =>
              \E t \in ResumedFetchAll : t.idx = Len(SUPPORTED_PLACE_TYPES) ]_vars

C31_Witness ==
  /\ ev.categoryFailed = Some("restaurant")
  /\ store.error = Null
  /\ store.isLoading
  /\ \E t \in Parked("fetchAllNearbyPlaces") :
       /\ t.idx = 2
       /\ t.acc = <<>>
       /\ SUPPORTED_PLACE_TYPES[t.idx] = "cafe"

\* The fetchNearbyPlaces tasks the step resumed.
ResumedFetch == { t \in Parked("fetchNearbyPlaces") :
                   CopiesIn(t, tasks') < CopiesIn(t, tasks) }

\* C32: a fetchNearbyPlaces whose request succeeds writes its results to
\* nearbyPlaces whatever the mode and the location have become since it was
\* started (nothing cancels it, nothing compares generations), so a fetch
\* made at the live position can end in default mode with its results in
\* nearbyPlaces.
C32_StaleFetchOverwrites ==
  [][ ev'.fetched # Null =>
        \E t \in ResumedFetch :
          /\ t.loc = ev'.fetched
          /\ store'.nearbyPlaces \in { ServiceGetNearbyPlaces(body) :
                                        body \in ServerResponses(t.type) } ]_vars

C32_Witness ==
  /\ ev.fetched # Null
  /\ ~IsUsingDefaultLocation(The(ev.fetched))
  /\ ev.lastToggle = "default"
  /\ store.useDefaultLocation
  /\ store.currentLocation = Some(DEFAULT_LOCATION)
  /\ Len(store.nearbyPlaces) > 0
  /\ tasks = EmptyBag

\* C33: a subscriber never sees an action half done: during
\* setUseDefaultLocation(true) never useDefaultLocation = true with a
\* currentLocation that is not the default location, and during a failing
\* fetch never the new error with a place list not yet cleared.
C33_NoPartialUpdate ==
  /\ Parked("setUseDefaultLocation.currentLocation") # {} =>
       ~(store.useDefaultLocation /\ store.currentLocation # Some(DEFAULT_LOCATION))
  /\ Parked("fetchNearbyPlaces.catch") # {} =>
       ~(store.error # Null /\ store.nearbyPlaces # <<>>)

\* C34: an error reported on the active watch only sets error to
\* 'Location tracking error': the watch stays registered, the service keeps
\* its handle and isLocationWatching stays true, so the watch goes on
\* delivering positions.
C34_WatchErrorKeepsWatch ==
  [][ WatchError =>
        /\ store' = [store EXCEPT !.error = Some("Location tracking error")]
        /\ store'.isLocationWatching
        /\ watches' = watches
        /\ service' = service
        /\ service'.locationWatcherId \subseteq watches'
        /\ service'.locationWatcherId # Null
        /\ tasks' = tasks ]_vars

C34_Witness ==
  /\ store.error = Some("Location tracking error")
  /\ ev.positionUpdate # Null
  /\ store.currentLocation = ev.positionUpdate
  /\ store.isLocationWatching
  /\ service.locationWatcherId # Null
  /\ ~store.useDefaultLocation

\* C36: the store's flag and the service's resource agree in every state:
\* isLocationWatching is true exactly when the location service holds a
\* watch handle.
C36_FlagMatchesWatchHandle ==
  store.isLocationWatching <=> service.locationWatcherId # Null

C36_Witness ==
  /\ nextWatchId > 1
  /\ ~store.isLocationWatching
  /\ service.locationWatcherId = Null
  /\ store = initialState
  /\ tasks # EmptyBag

\* C37: in default mode no location watch is active: isLocationWatching is
\* false and the service holds no watch handle.
C37_NoWatchInDefaultMode ==
  store.useDefaultLocation =>
    /\ ~store.isLocationWatching
    /\ service.locationWatcherId = Null

\* C35: called while currentLocation is null, fetchNearbyPlaces and
\* fetchAllNearbyPlaces make no request (no task is left waiting), set error
\* to 'No location available', do not turn isLoading on and leave
\* nearbyPlaces, allPlaces, useDefaultLocation and currentLocation as they
\* are.
C35_NoLocationGuard ==
  [][ (/\ store.currentLocation = Null
       /\ \/ FetchAllNearbyPlaces
          \/ \E type \in PlaceTypeSet : FetchNearbyPlaces(type)) =>
        /\ tasks' = tasks
        /\ store'.error = Some("No location available")
        /\ store'.isLoading => store.isLoading
        /\ store'.nearbyPlaces = store.nearbyPlaces
        /\ store'.allPlaces = store.allPlaces
        /\ store'.useDefaultLocation = store.useDefaultLocation
        /\ store'.currentLocation = Null ]_vars

C35_Witness ==
  /\ store.currentLocation = Null
  /\ store.error = Some("No location available")
  /\ ~store.isLoading
  /\ store.nearbyPlaces = <<>>
  /\ tasks = EmptyBag
  /\ presses = 1

\* C38: when every awaited call settles, every action of the store that is
\* in flight completes, and the step in which an action completes leaves
\* isLoading false, whether it succeeded or failed.
C38_LoadingEventuallyCleared ==
  /\ (tasks # EmptyBag) ~> (tasks = EmptyBag /\ ~store.isLoading)
  /\ [][ BagCardinality(tasks') < BagCardinality(tasks) => ~store'.isLoading ]_vars

C38_Witness ==
  /\ tasks = EmptyBag
  /\ ~store.isLoading
  /\ store.error = Some("Location request timed out")
  /\ store.currentLocation = Null
  /\ presses = 1

\* The awaits at which a store action that has set isLoading waits for a
\* places, permission or position request.
StoreRequestPcs ==
  PlacesRequestPcs \cup
    { "requestLocationPermission", "getCurrentLocation", "toggle.getCurrentLocation" }

\* C39: isLoading is true as long as a places, permission or position request
\* started by a store action is pending, so that the controls disabled by
\* isLoading cannot start a second flow before the first has completed.
C39_LoadingWhileRequestPending ==
  \A t \in BagToSet(tasks) : t.pc \in StoreRequestPcs => store.isLoading

\* C40: when the handler of the 'all' tab completes, nearbyPlaces is a merged
\* all-categories result (the list fetchAllNearbyPlaces also leaves in
\* allPlaces) and not the list of an earlier single-category fetch; a handler
\* that starts fetchAllNearbyPlaces completes as C30 describes, so the step
\* examined here is the one in which the handler completes at once.
C40_AllTabShowsMergedResult ==
  [][ (SelectCategory("all") /\ tasks' = tasks /\ store'.error = Null) =>
        store'.nearbyPlaces = store'.allPlaces ]_vars

====
